---- MODULE Spec2Model ----
(***************************************************************************)
(* Conversion-and-cache pipeline of the Mattermost sticker bot:            *)
(* WebmHandler.convertWebmToGif, TgsHandler.convertTgsToGif and            *)
(* StaticHandler.resizeStaticImage running as concurrent async calls of    *)
(* one Node.js process over the shared gif-cache/ and temp/ directories.   *)
(* One action is the code a call runs between two awaits, together with    *)
(* the effect of the awaited filesystem operation or external process.     *)
(* Consecutive awaits are one action where no step of another call can     *)
(* tell the difference: the hash and fs.access of a call, the two stages   *)
(* of downloadFile, a readdir with its unlink loop, and the closing        *)
(* unlink/rmdir of a call with its return.  The encoders (gifski, ffmpeg   *)
(* -y) write the cache path in place, so their start and their exit are    *)
(* separate actions.                                                       *)
(***************************************************************************)
EXTENDS Integers, Sequences, FiniteSets, TLC

\* ------------------------------------------------------------------ bounds
NCalls == 2
MaxFrames == 2
MaxArtifacts == 3
MaxSize == 3
MaxSweeps == 2
MaxRate == 120
NPosts == 2
MaxClock == 12
MaxCloses == 12

Calls == 1..NCalls
Null == "null"
Thrown == "throw"

\* ------------------------------------------------------------ the requests
\* A source URL is <bot file URL>/<file_path>: `file` is the sticker it
\* serves, `rot` distinguishes two time-limited URLs of one sticker, `ext`
\* is the extension the handlers look for with includes().
Url(file, rot, ext) == [file |-> file, rot |-> rot, ext |-> ext]

\* The URL as the string that is downloaded and hashed.
Href(url) == "file/" \o url.rot \o "/" \o url.file \o "." \o url.ext

Urls == { Url("w", "1", "webm"), Url("w", "2", "webm"),
          Url("t", "1", "tgs"),
          Url("s", "1", "png"), Url("s", "2", "png") }

\* The (url, fileId) pairs the callers pass: /api/send of the picker passes
\* the sticker's file_id, the older picker passes the URL alone.
Requests == { [url |-> Url("w", "1", "webm"), fileId |-> "fileW"],
              [url |-> Url("w", "2", "webm"), fileId |-> "fileW"],
              [url |-> Url("w", "1", "webm"), fileId |-> Null],
              [url |-> Url("t", "1", "tgs"),  fileId |-> "fileT"],
              [url |-> Url("s", "1", "png"),  fileId |-> "fileS"],
              [url |-> Url("s", "2", "png"),  fileId |-> "fileS"] }

\* Converter chosen from the URL's extension.
Kind(url) == IF url.ext = "webm" THEN "webm"
             ELSE IF url.ext = "tgs" THEN "tgs" ELSE "static"

\* generateHash: md5 hex digest, a fixed-length one-way map taken to be
\* collision free on the identifiers in use.
IdentList == << "fileW", "fileT", "fileS",
                "file/1/w.webm", "file/2/w.webm", "file/1/t.tgs",
                "file/1/s.png", "file/2/s.png",
                "file/1/s.jpg", "file/1/s.jpeg", "file/1/s.webp", "file/1/s.bmp" >>

Digests == << "3f9a", "c01d", "7be2", "a4c8", "19e5", "d270", "5b6f", "e833",
              "84aa", "f17c", "2d06", "6e91" >>

generateHash(input) ==
    Digests[CHOOSE n \in 1..Len(IdentList) : IdentList[n] = input]

\* the digests of the identifiers the requests carry
Hashes == { generateHash(f) : f \in { "fileW", "fileT", "fileS" } }
              \cup { generateHash(Href(u)) : u \in Urls }

\* `fileId || url`
OrElse(fileId, url) == IF fileId # Null THEN fileId ELSE Href(url)

\* ------------------------------------------------- the picker's environment
\* process.env.MM_BOT_TOKEN and what a request can carry as its token
MM_BOT_TOKEN == "mm-bot-token"
Tokens == { MM_BOT_TOKEN, "not-the-token", Null }

defaultPacks == << "memezey", "pepetop", "HotCherry" >>

\* entries of data/custom-packs.json
Mine  == [name |-> "Mine",  telegramName |-> "minepack"]
Other == [name |-> "Other", telegramName |-> "otherpack"]
CustomPackLists == { << >>, << Mine >>, << Mine, Other >> }

\* the pack names requests carry
PackNames == { "memezey", "Mine", "Other" }

\* The sticker sets Telegram's getStickerSet knows, by set name.
Sticker(fileId, animated, video) ==
    [file_id |-> fileId, emoji |-> "emoji-" \o fileId,
     is_animated |-> animated, is_video |-> video]

StickerSets ==
    [ memezey  |-> << Sticker("fileW", FALSE, TRUE), Sticker("fileT", TRUE, FALSE),
                      Sticker("fileS", FALSE, FALSE) >>,
      minepack |-> << Sticker("fileS", FALSE, FALSE) >> ]

\* md5(fileId).substring(0, 16): the digests of the model are shorter
UrlHash(fileId) == generateHash(fileId)
UrlHashes == { UrlHash(f) : f \in { "fileW", "fileT", "fileS" } }

\* the session ids Math.random() yields
SessionIds == { "s1" }

\* ----------------------------------------------------- the bot's environment
\* the 'posted' events handled at a time, by post.id
PostIds == 1..NPosts

botId == "bot1"
\* post.user_id and post.channel_id
UserIds == { "u1", botId }
ChannelOf(p) == IF p = 1 THEN "ch1" ELSE "ch2"

\* what a message holds besides its words: `<@${botId}>`, the bot's name, or
\* no mention
Mentions == { "<@bot1>", "@StickerBot", Null }
\* the words of a message around the mention
Commands == { << >>, << "Help", "me" >>, << "ass" >>, << "s" >> }
\* channelInfo.type, or no channel info
ChannelTypes == { "O", "D", "X", Null }

\* ------------------------------------------------------------------- paths
cachedGifOf(hash)   == "gif-cache/" \o hash \o ".gif"
cachedImageAsSniffed(hash) == "gif-cache/" \o hash \o ".png"

cachedImageOf(hash) == "gif-cache/" \o hash \o ".webp"
tempWebmOf(hash)    == "temp/" \o hash \o ".webm"
webmFramesDirOf(hash) == "temp/webm_" \o hash
tgsFramesDirOf(hash)  == "temp/tgs_" \o hash

\* The static handler sniffs the extension of the temporary download.
SniffExt(url) == IF url.ext = "png" THEN "png"
                 ELSE IF url.ext \in {"jpg", "jpeg"} THEN "jpg" ELSE "webp"

tempImageOf(hash, url) == "temp/" \o hash \o "_orig." \o SniffExt(url)

CachePaths == { cachedGifOf(h) : h \in Hashes } \cup { cachedImageOf(h) : h \in Hashes }
TempFiles  == { tempWebmOf(h) : h \in Hashes }
                 \cup { tempImageOf(h, u) : h \in Hashes, u \in Urls }
TempDirs   == { webmFramesDirOf(h) : h \in Hashes } \cup { tgsFramesDirOf(h) : h \in Hashes }

Frames == 0..(MaxFrames - 1)

\* The entries of gif-cache/ the sweeper can find, their sizes (in units of
\* 25 MB) and their modification times
ArtifactNames == 1..MaxArtifacts
Sizes == 1..MaxSize
Mtimes == 1..MaxArtifacts

\* ------------------------------------------------------------------- state
VARIABLES
    pc,        \* pc[c]: the await the call c is suspended at
    req,       \* req[c]: the (url, fileId) the caller passed
    hash,      \* hash[c]: the local `hash`
    out,       \* out[c]: what the call returned: a path, Null, or Thrown
    cache,     \* cache[p]: the file at cache path p
    temp,      \* temp[p]: the downloaded source at temp path p
    dirs,      \* dirs[p]: the frame files in frames directory p
    gwindow,   \* global.window/document/navigator: 0, or the call whose JSDOM it is
    anim,      \* anim[c]: the animation a TGS call loaded
    frameNum,  \* frameNum[c]: the render loop's frameNum
    workspace, \* workspace[c]: the temp paths the call has created or written
    downloads, \* downloads[c]: download attempts of the call
    execs      \* execs[c]: external processes the call has started

convVars == << pc, req, hash, out, cache, temp, dirs, gwindow, anim, frameNum,
              workspace, downloads, execs >>

\* The cache sweeper (CacheManager), on its own timer.
VARIABLES
    artifacts, \* artifacts[n]: size and mtime of cache entry n (size 0: no such file)
    sweepPc,   \* "idle", or "evicting" while a sweep cycle deletes
    entries,   \* the sorted entries the running cycle has not yet looked at
    totalSize, \* the running total of the cycle
    sweeps     \* per sweep cycle so far, the entries it deleted, in order

sweepVars == << artifacts, sweepPc, entries, totalSize, sweeps >>

\* The frame stride of one animation document.
VARIABLES
    animFr,    \* animData.fr of the parsed document; 0 when it declares none
    step       \* the local `step`; -1 before it is computed

strideVars == << animFr, step >>

\* Key derivation of one converter for two requests.
VARIABLES
    keyReqs,   \* the converter and the two (url, fileId) it is called with
    keyPaths   \* the cache paths the two calls resolve to; << >> before

keyVars == << keyReqs, keyPaths >>

\* The web picker (WebPicker) and the Telegram client (TelegramAPI).
VARIABLES
    build,       \* which of the two picker sources runs: "part_003" or "web-ui"
    sessions,    \* WebPicker.sessions
    customPacks, \* the content of data/custom-packs.json
    tgSets,      \* TelegramAPI.stickerCache: the set names it holds
    send,        \* the POST /api/send request being handled
    invoked,     \* the converters that request has called
    posted,      \* the messages that request has posted to Mattermost
    sendRes,     \* the HTTP responses that request has been sent
    stickerCache, \* WebPicker.stickerCache
    urlMap,      \* TelegramAPI.urlMap
    packReq,     \* the GET /api/pack/:name request being handled
    packRes,     \* the body of the last /api/pack response
    deleteReq,   \* the last POST /api/delete-pack request
    deleteRes    \* the status it was answered with

sendVars == << sessions, send, invoked, posted, sendRes >>
packVars == << stickerCache, urlMap, packReq, packRes, deleteReq, deleteRes >>
pickerVars == << build, customPacks, tgSets, sendVars, packVars >>

\* Pack management (GET /api/packs, POST /api/add-pack).
VARIABLES
    packsRes,    \* the last GET /api/packs response
    addRes       \* the status of the last POST /api/add-pack response

manageVars == << packsRes, addRes >>

\* The bot's WebSocket handler (StickerBot).
VARIABLES
    posts,          \* the 'posted' events: where each one's handler stands
    mmCalls,        \* the requests made to the Mattermost API, in order
    sessionChannel  \* channelId of the sessions generatePickerLink created

botVars == << posts, mmCalls, sessionChannel >>

\* The static converter's file names, alone.
VARIABLES
    imageReqs,   \* two requests to resizeStaticImage
    imagePaths   \* per request: the temporary download and the path returned

imageVars == << imageReqs, imagePaths >>

\* The sticker proxy (GET /proxy/sticker).
VARIABLES
    proxyReq,    \* the GET /proxy/sticker request being handled
    proxyRes     \* the statuses of the responses it has been sent

proxyVars == << proxyReq, proxyRes >>

\* Session lifetime (the created stamp of each session, part_003).
VARIABLES
    now,         \* Date.now(), in minutes
    created,     \* created[id]: the stamp of session id; -1 when the map has no such key
    lastSend     \* the last POST /api/send: its session, and the age it was accepted at
expiryVars == << now, created, lastSend >>

\* The bot's WebSocket (part_000: connectWebSocket).
VARIABLES
    sockets,     \* the WebSocket objects whose 'close' has not been emitted yet
    timers,      \* the pending reconnect timers: the seconds each has left
    closes,      \* 'close' events so far
    attempts     \* calls of connectWebSocket so far
wsVars == << sockets, timers, closes, attempts >>

vars == << convVars, sweepVars, strideVars, keyVars, pickerVars, manageVars, botVars, imageVars, proxyVars, expiryVars, wsVars >>

notConvVars == << wsVars, expiryVars, proxyVars, imageVars, botVars, sweepVars, strideVars, keyVars, pickerVars, manageVars >>
notSweepVars == << wsVars, expiryVars, proxyVars, imageVars, botVars, convVars, strideVars, keyVars, pickerVars, manageVars >>
notStrideVars == << wsVars, expiryVars, proxyVars, imageVars, botVars, convVars, sweepVars, keyVars, pickerVars, manageVars >>
notKeyVars == << wsVars, expiryVars, proxyVars, imageVars, botVars, convVars, sweepVars, strideVars, pickerVars, manageVars >>
notPickerVars == << wsVars, expiryVars, proxyVars, imageVars, botVars, convVars, sweepVars, strideVars, keyVars, manageVars >>
notManageVars == << wsVars, expiryVars, proxyVars, imageVars, botVars, convVars, sweepVars, strideVars, keyVars >>
notBotVars == << wsVars, expiryVars, proxyVars, imageVars, convVars, sweepVars, strideVars, keyVars, manageVars >>
notWsVars == << convVars, sweepVars, strideVars, keyVars, pickerVars, manageVars, botVars, imageVars, proxyVars, expiryVars >>
notExpiryVars == << wsVars, convVars, sweepVars, strideVars, keyVars, pickerVars, manageVars, botVars, imageVars, proxyVars >>
notProxyVars == << wsVars, expiryVars, convVars, sweepVars, strideVars, keyVars, manageVars, botVars, imageVars >>
notImageVars == << wsVars, expiryVars, proxyVars, convVars, sweepVars, strideVars, keyVars, pickerVars, manageVars, botVars >>

\* A file on disk: the processes still writing it and what its bytes are.
\* "partial": being written, or left behind by a writer that failed;
\* "complete": the whole output of one writer that succeeded;
\* "corrupt":  two writers wrote the same inode.
File(writers, state) == [writers |-> writers, state |-> state]
NoFile == File({}, "absent")

\* A frames directory: whether it exists and the frame files in it.
Dir(files) == [exists |-> TRUE, files |-> files]
NoDir == [exists |-> FALSE, files |-> {}]

\* open(path, O_CREAT | O_TRUNC) by process c
OpenTrunc(f, c) ==
    IF f = NoFile THEN File({c}, "partial")
    ELSE File(f.writers \cup {c}, IF f.writers = {} THEN "partial" ELSE "corrupt")

\* process c closes the file it opened; its inode may have been unlinked
CloseFile(f, c, ok) ==
    IF f = NoFile \/ c \notin f.writers THEN f
    ELSE File(f.writers \ {c},
              IF f.state = "corrupt" \/ f.writers # {c} THEN "corrupt"
              ELSE IF ok THEN "complete" ELSE "partial")

NoAnim == [fr |-> 0, totalFrames |-> 0]
NoRequest == [url |-> Url("", "", ""), fileId |-> Null]

\* No conversion has been called yet.
ConvertersIdle ==
    /\ pc = [c \in Calls |-> "idle"]
    /\ req = [c \in Calls |-> NoRequest]
    /\ hash = [c \in Calls |-> Null]
    /\ out = [c \in Calls |-> Null]
    /\ cache = [p \in CachePaths |-> NoFile]
    /\ temp = [p \in TempFiles |-> NoFile]
    /\ dirs = [p \in TempDirs |-> NoDir]
    /\ gwindow = 0
    /\ anim = [c \in Calls |-> NoAnim]
    /\ frameNum = [c \in Calls |-> 0]
    /\ workspace = [c \in Calls |-> {}]
    /\ downloads = [c \in Calls |-> 0]
    /\ execs = [c \in Calls |-> 0]

NoArtifact == [size |-> 0, mtime |-> 0]

\* The sweeper has not run and the cache directory is empty.
SweeperIdle ==
    /\ artifacts = [n \in ArtifactNames |-> NoArtifact]
    /\ sweepPc = "idle"
    /\ entries = << >>
    /\ totalSize = 0
    /\ sweeps = << >>

\* No animation document is being looked at.
StrideIdle == animFr = 0 /\ step = -1

\* No key is being derived.
KeysIdle == keyReqs = << >> /\ keyPaths = << >>

NoSession == [exists |-> FALSE, responseUrl |-> FALSE, responseUrlDead |-> FALSE]
NoSend == [pc |-> "end", sessionId |-> Null, packName |-> Null, stickerIndex |-> 0,
           stickerUrl |-> Url("", "", ""), fileId |-> Null, branch |-> Null]
NoPackReq == [pc |-> "end", packName |-> Null, telegramPackName |-> Null]
NoResponse == [sent |-> FALSE, body |-> << >>]
NoDelete == [n |-> 0, token |-> Null, packName |-> Null]

\* No custom pack, no session, nothing cached, no request being handled.
PickerIdle ==
    /\ build = "part_003"
    /\ customPacks = << >>
    /\ tgSets = {}
    /\ sessions = [i \in SessionIds |-> NoSession]
    /\ send = NoSend
    /\ invoked = {}
    /\ posted = << >>
    /\ sendRes = << >>
    /\ stickerCache = [n \in PackNames |-> << >>]
    /\ urlMap = [h \in UrlHashes |-> NoRequest]
    /\ packReq = NoPackReq
    /\ packRes = NoResponse
    /\ deleteReq = NoDelete
    /\ deleteRes = 0

\* No pack list was asked for, no pack was added.
PackUrl(host, name) == [host |-> host, name |-> name]
NoPackUrl == PackUrl(Null, Null)
ManageIdle == packsRes = NoResponse /\ addRes = 0

\* No event has arrived, no request was made to Mattermost.
NoPost == [pc |-> "new", deleted |-> Null, words |-> << >>]
BotIdle ==
    /\ posts = [p \in PostIds |-> NoPost]
    /\ mmCalls = << >>
    /\ sessionChannel = [i \in SessionIds |-> Null]

\* No file name is being derived.
ImagesIdle == imageReqs = << >> /\ imagePaths = << >>

\* No proxy request has been made.
NoProxyReq == [pc |-> "end", hash |-> Null, url |-> NoRequest.url, attempt |-> 0,
               fetches |-> << >>, refreshes |-> << >>]
ProxyIdle == proxyReq = NoProxyReq /\ proxyRes = << >>

\* None of the remaining routes and events is being handled.
\* the ids Math.random().toString(36).substring(7) can give
StampedIds == {"s1", "s2"}

\* no session with a stamp, and no send yet
NoLastSend == [id |-> Null, status |-> 0, age |-> 0]
ExpiryIdle == now = 0 /\ created = [id \in StampedIds |-> -1] /\ lastSend = NoLastSend

\* connect() has not been called
WsIdle == sockets = << >> /\ timers = << >> /\ closes = 0 /\ attempts = 0

RoutesIdle == ManageIdle /\ BotIdle /\ ImagesIdle /\ ProxyIdle /\ ExpiryIdle /\ WsIdle

Init ==
    /\ ConvertersIdle /\ SweeperIdle /\ StrideIdle /\ KeysIdle /\ PickerIdle
    /\ RoutesIdle

InFlight(c) == pc[c] \notin {"idle", "done"}

\* The caller's calls arrive in the order of their numbers.
Arrives(c) == pc[c] = "idle" /\ (IF c = 1 THEN TRUE ELSE pc[c - 1] # "idle")

\* The call returns or throws `value`; its locals and its bookkeeping end
\* with it.
Return(c, value) ==
    /\ pc' = [pc EXCEPT ![c] = "done"]
    /\ out' = [out EXCEPT ![c] = value]
    /\ anim' = [anim EXCEPT ![c] = NoAnim]
    /\ frameNum' = [frameNum EXCEPT ![c] = 0]
    /\ workspace' = [workspace EXCEPT ![c] = {}]
    /\ execs' = [execs EXCEPT ![c] = 0]

\* ------------------------------------------------- WebmHandler (handler_webm)
cachedGif(c) == cachedGifOf(hash[c])
tempWebm(c)  == tempWebmOf(hash[c])
webmFramesDir(c) == webmFramesDirOf(hash[c])

\* the key taken from the URL alone
WebmKeyFromUrl(webmUrl, fileId) == generateHash(Href(webmUrl))

\* const hash = this.generateHash(fileId || webmUrl)
WebmKey(webmUrl, fileId) == generateHash(OrElse(fileId, webmUrl))

\* convertWebmToGif(url, fileId) is called: hash, then await fs.access(cached):
\* a hit returns the cache path, a miss starts the download
convertWebmToGif(c, r) ==
    /\ Arrives(c)
    /\ Kind(r.url) = "webm"
    /\ req' = [req EXCEPT ![c] = r]
    /\ hash' = [hash EXCEPT ![c] = WebmKey(r.url, r.fileId)]
    /\ IF cache[cachedGifOf(hash'[c])] # NoFile
       THEN /\ pc' = [pc EXCEPT ![c] = "done"]
            /\ out' = [out EXCEPT ![c] = cachedGifOf(hash'[c])]
            /\ UNCHANGED downloads
       ELSE /\ pc' = [pc EXCEPT ![c] = "w_download"]
            /\ downloads' = [downloads EXCEPT ![c] = @ + 1]
            /\ UNCHANGED out
    /\ UNCHANGED << cache, temp, dirs, gwindow, anim, frameNum, workspace, execs >>
    /\ UNCHANGED notConvVars

\* await this.downloadFile(webmUrl, tempWebm) settles: the request failed,
\* or the write stream created tempWebm and then emitted error or finish
WebmDownload(c) ==
    /\ pc[c] = "w_download"
    /\ \/ /\ pc' = [pc EXCEPT ![c] = "w_catch"]
          /\ UNCHANGED << temp, workspace >>
       \/ /\ \E ok \in BOOLEAN :
                /\ temp' = [temp EXCEPT ![tempWebm(c)] =
                               File({}, IF ok THEN "complete" ELSE "partial")]
                /\ pc' = [pc EXCEPT ![c] = IF ok THEN "w_mkdir" ELSE "w_catch"]
          /\ workspace' = [workspace EXCEPT ![c] = @ \cup {tempWebm(c)}]
    /\ UNCHANGED << req, hash, out, cache, dirs, gwindow, anim, frameNum,
                    downloads, execs >>
    /\ UNCHANGED notConvVars

\* fs.mkdir(framesDir, {recursive: true}) settles and ffmpeg is started
WebmMkdir(c) ==
    /\ pc[c] = "w_mkdir"
    /\ dirs' = [dirs EXCEPT ![webmFramesDir(c)] = IF @.exists THEN @ ELSE Dir({})]
    /\ workspace' = [workspace EXCEPT ![c] = @ \cup {webmFramesDir(c)}]
    /\ execs' = [execs EXCEPT ![c] = @ + 1]
    /\ pc' = [pc EXCEPT ![c] = "w_ffmpeg"]
    /\ UNCHANGED << req, hash, out, cache, temp, gwindow, anim, frameNum, downloads >>
    /\ UNCHANGED notConvVars

\* ffmpeg exits: with status 0 it has written every frame; with an error it
\* has written none or a first one; it cannot succeed without its input or output dir.
\* On success gifski is started.
WebmFfmpeg(c) ==
    /\ pc[c] = "w_ffmpeg"
    /\ \/ /\ temp[tempWebm(c)] # NoFile
          /\ dirs[webmFramesDir(c)].exists
          /\ dirs' = [dirs EXCEPT ![webmFramesDir(c)] = Dir(@.files \cup Frames)]
          /\ execs' = [execs EXCEPT ![c] = @ + 1]
          /\ pc' = [pc EXCEPT ![c] = "w_gifski"]
       \/ /\ \E n \in 0..1 :
                dirs' = [dirs EXCEPT ![webmFramesDir(c)] =
                            IF @.exists /\ temp[tempWebm(c)] # NoFile
                            THEN Dir(@.files \cup 0..(n - 1)) ELSE @]
          /\ pc' = [pc EXCEPT ![c] = "w_catch"]
          /\ UNCHANGED execs
    /\ UNCHANGED << req, hash, out, cache, temp, gwindow, anim, frameNum,
                    workspace, downloads >>
    /\ UNCHANGED notConvVars

\* gifski -o cachedGif framesDir/frame_*.png either exits with an error
\* before writing, or creates cachedGif and starts writing it; with no frame
\* file to match it can only fail
WebmGifskiOpen(c) ==
    /\ pc[c] = "w_gifski"
    /\ \/ /\ pc' = [pc EXCEPT ![c] = "w_catch"]
          /\ UNCHANGED cache
       \/ /\ dirs[webmFramesDir(c)].files # {}
          /\ cache' = [cache EXCEPT ![cachedGif(c)] = OpenTrunc(@, c)]
          /\ pc' = [pc EXCEPT ![c] = "w_encoding"]
    /\ UNCHANGED << req, hash, out, temp, dirs, gwindow, anim, frameNum,
                    workspace, downloads, execs >>
    /\ UNCHANGED notConvVars

\* gifski exits, and its exit status is not looked at
WebmGifskiExitUnchecked(c) ==
    /\ pc[c] = "w_encoding"
    /\ \E ok \in BOOLEAN :
          /\ cache' = [cache EXCEPT ![cachedGif(c)] = CloseFile(@, c, ok)]
          /\ pc' = [pc EXCEPT ![c] = "w_readdir"]
    /\ UNCHANGED << req, hash, out, temp, dirs, gwindow, anim, frameNum,
                    workspace, downloads, execs >>
    /\ UNCHANGED notConvVars

\* gifski exits
WebmGifskiExit(c) ==
    /\ pc[c] = "w_encoding"
    /\ \E ok \in BOOLEAN :
          /\ cache' = [cache EXCEPT ![cachedGif(c)] = CloseFile(@, c, ok)]
          /\ pc' = [pc EXCEPT ![c] = IF ok THEN "w_readdir" ELSE "w_catch"]
    /\ UNCHANGED << req, hash, out, temp, dirs, gwindow, anim, frameNum,
                    workspace, downloads, execs >>
    /\ UNCHANGED notConvVars

\* fs.readdir(framesDir) and the loop of fs.unlink(frame).catch()
WebmReaddir(c) ==
    /\ pc[c] = "w_readdir"
    /\ IF dirs[webmFramesDir(c)].exists
       THEN /\ dirs' = [dirs EXCEPT ![webmFramesDir(c)] = Dir({})]
            /\ pc' = [pc EXCEPT ![c] = "w_rmdir"]
       ELSE /\ pc' = [pc EXCEPT ![c] = "w_catch"]
            /\ UNCHANGED dirs
    /\ UNCHANGED << req, hash, out, cache, temp, gwindow, anim, frameNum,
                    workspace, downloads, execs >>
    /\ UNCHANGED notConvVars

\* fs.rmdir(framesDir).catch() (removes the directory only when it is
\* empty); fs.unlink(tempWebm).catch(); return cachedGif
WebmRmdir(c) ==
    /\ pc[c] = "w_rmdir"
    /\ dirs' = [dirs EXCEPT ![webmFramesDir(c)] =
                   IF @.exists /\ @.files = {} THEN NoDir ELSE @]
    /\ temp' = [temp EXCEPT ![tempWebm(c)] = NoFile]
    /\ Return(c, cachedGif(c))
    /\ UNCHANGED << req, hash, cache, gwindow, downloads >>
    /\ UNCHANGED notConvVars

\* a catch block that starts the download again
WebmCatchRetry(c) ==
    /\ pc[c] = "w_catch"
    /\ downloads[c] < 3
    /\ pc' = [pc EXCEPT ![c] = "w_download"]
    /\ downloads' = [downloads EXCEPT ![c] = @ + 1]
    /\ UNCHANGED << req, hash, out, cache, temp, dirs, gwindow, anim, frameNum,
                    workspace, execs >>
    /\ UNCHANGED notConvVars

\* catch (error): fs.unlink(tempWebm).catch();
\* fs.unlink(cachedGif).catch(); throw error
WebmCatch(c) ==
    /\ pc[c] = "w_catch"
    /\ temp' = [temp EXCEPT ![tempWebm(c)] = NoFile]
    /\ cache' = [cache EXCEPT ![cachedGif(c)] = NoFile]
    /\ Return(c, Thrown)
    /\ UNCHANGED << req, hash, dirs, gwindow, downloads >>
    /\ UNCHANGED notConvVars

\* --------------------------------------------------- TgsHandler (handler_tgs)
tgsCachedGif(c) == cachedGifOf(hash[c])
tgsFramesDir(c) == tgsFramesDirOf(hash[c])

\* const hash = this.generateHash(fileId || tgsUrl)
TgsKey(tgsUrl, fileId) == generateHash(OrElse(fileId, tgsUrl))

\* The Lottie documents a download can carry: animData.fr (0 when the
\* document declares none) and the totalFrames lottie derives from it.
AnimDocs == { [fr |-> 0,   totalFrames |-> 0],
              [fr |-> 60,  totalFrames |-> MaxFrames],
              [fr |-> 120, totalFrames |-> MaxFrames] }

targetFps == 50

\* x / y truncated
FloorDiv(x, y) == x \div y

\* Math.round(x / y) for non-negative integers
RoundDiv(x, y) == (2 * x + y) \div (2 * y)

\* const step = Math.max(1, Math.round((animData.fr || 60) / targetFps))
Step(fr) ==
    LET rate == IF fr = 0 THEN 60 ELSE fr
        r == RoundDiv(rate, targetFps)
    IN  IF r > 1 THEN r ELSE 1

\* the loop variable i of the render loop
LoopI(c) == frameNum[c] * Step(anim[c].fr)

\* convertTgsToGif(url, fileId) is called: hash, then await fs.access(cached):
\* a hit returns the cache path, a miss starts the download
convertTgsToGif(c, r) ==
    /\ Arrives(c)
    /\ Kind(r.url) = "tgs"
    /\ req' = [req EXCEPT ![c] = r]
    /\ hash' = [hash EXCEPT ![c] = TgsKey(r.url, r.fileId)]
    /\ IF cache[cachedGifOf(hash'[c])] # NoFile
       THEN /\ pc' = [pc EXCEPT ![c] = "done"]
            /\ out' = [out EXCEPT ![c] = cachedGifOf(hash'[c])]
            /\ UNCHANGED downloads
       ELSE /\ pc' = [pc EXCEPT ![c] = "t_axios"]
            /\ downloads' = [downloads EXCEPT ![c] = @ + 1]
            /\ UNCHANGED out
    /\ UNCHANGED << cache, temp, dirs, gwindow, anim, frameNum, workspace, execs >>
    /\ UNCHANGED notConvVars

\* The axios request settles.  On a response: pako.ungzip and JSON.parse
\* (either may throw), then the JSDOM is installed in global.window,
\* global.document, global.navigator, lottie is loaded and
\* lottie.loadAnimation (which may throw) builds the animation; then
\* await fs.mkdir(framesDir)
TgsAxios(c) ==
    /\ pc[c] = "t_axios"
    /\ \/ /\ pc' = [pc EXCEPT ![c] = "t_catch"]
          /\ UNCHANGED << gwindow, anim >>
       \/ /\ gwindow' = c
          /\ pc' = [pc EXCEPT ![c] = "t_catch"]
          /\ UNCHANGED anim
       \/ /\ gwindow' = c
          /\ \E doc \in AnimDocs : anim' = [anim EXCEPT ![c] = doc]
          /\ pc' = [pc EXCEPT ![c] = "t_mkdir"]
    /\ UNCHANGED << req, hash, out, cache, temp, dirs, frameNum,
                    workspace, downloads, execs >>
    /\ UNCHANGED notConvVars

\* the loop test with <= in place of <
RenderNextInclusive(c, n) ==
    IF n * Step(anim[c].fr) <= anim[c].totalFrames
    THEN /\ \E ok \in BOOLEAN :
              pc' = [pc EXCEPT ![c] = IF ok THEN "t_write" ELSE "t_catch"]
         /\ UNCHANGED execs
    ELSE /\ pc' = [pc EXCEPT ![c] = "t_gifski"]
         /\ execs' = [execs EXCEPT ![c] = @ + 1]

\* After an await inside the render loop: the loop test, then either
\* anim.goToAndStop(i) and mainCanvas.toBuffer (either may throw) followed by
\* await fs.writeFile, or anim.destroy() and the start of gifski.
RenderNext(c, n) ==
    IF n * Step(anim[c].fr) < anim[c].totalFrames
    THEN /\ \E ok \in BOOLEAN :
              pc' = [pc EXCEPT ![c] = IF ok THEN "t_write" ELSE "t_catch"]
         /\ UNCHANGED execs
    ELSE /\ pc' = [pc EXCEPT ![c] = "t_gifski"]
         /\ execs' = [execs EXCEPT ![c] = @ + 1]

\* fs.mkdir(framesDir, {recursive: true}) settles; frameNum = 0, i = 0
TgsMkdir(c) ==
    /\ pc[c] = "t_mkdir"
    /\ dirs' = [dirs EXCEPT ![tgsFramesDir(c)] = IF @.exists THEN @ ELSE Dir({})]
    /\ workspace' = [workspace EXCEPT ![c] = @ \cup {tgsFramesDir(c)}]
    /\ frameNum' = [frameNum EXCEPT ![c] = 0]
    /\ RenderNext(c, 0)
    /\ UNCHANGED << req, hash, out, cache, temp, gwindow, anim, downloads >>
    /\ UNCHANGED notConvVars

\* fs.writeFile(framesDir/frame_<frameNum>.png) settles (ENOENT when the
\* directory is gone); frameNum++, i += step
TgsWriteFile(c) ==
    /\ pc[c] = "t_write"
    /\ IF dirs[tgsFramesDir(c)].exists
       THEN /\ dirs' = [dirs EXCEPT ![tgsFramesDir(c)] = Dir(@.files \cup {frameNum[c]})]
            /\ frameNum' = [frameNum EXCEPT ![c] = @ + 1]
            /\ RenderNext(c, frameNum[c] + 1)
       ELSE /\ pc' = [pc EXCEPT ![c] = "t_catch"]
            /\ UNCHANGED << dirs, frameNum, execs >>
    /\ UNCHANGED << req, hash, out, cache, temp, gwindow, anim,
                    workspace, downloads >>
    /\ UNCHANGED notConvVars

\* gifski -o cachedGif framesDir/frame_*.png either exits with an error
\* before writing, or creates cachedGif and starts writing it; with no frame
\* file to match it can only fail
TgsGifskiOpen(c) ==
    /\ pc[c] = "t_gifski"
    /\ \/ /\ pc' = [pc EXCEPT ![c] = "t_catch"]
          /\ UNCHANGED cache
       \/ /\ dirs[tgsFramesDir(c)].files # {}
          /\ cache' = [cache EXCEPT ![tgsCachedGif(c)] = OpenTrunc(@, c)]
          /\ pc' = [pc EXCEPT ![c] = "t_encoding"]
    /\ UNCHANGED << req, hash, out, temp, dirs, gwindow, anim, frameNum,
                    workspace, downloads, execs >>
    /\ UNCHANGED notConvVars

\* gifski exits
TgsGifskiExit(c) ==
    /\ pc[c] = "t_encoding"
    /\ \E ok \in BOOLEAN :
          /\ cache' = [cache EXCEPT ![tgsCachedGif(c)] = CloseFile(@, c, ok)]
          /\ pc' = [pc EXCEPT ![c] = IF ok THEN "t_readdir" ELSE "t_catch"]
    /\ UNCHANGED << req, hash, out, temp, dirs, gwindow, anim, frameNum,
                    workspace, downloads, execs >>
    /\ UNCHANGED notConvVars

\* fs.readdir(framesDir) and the loop of fs.unlink(file).catch()
TgsReaddir(c) ==
    /\ pc[c] = "t_readdir"
    /\ IF dirs[tgsFramesDir(c)].exists
       THEN /\ dirs' = [dirs EXCEPT ![tgsFramesDir(c)] = Dir({})]
            /\ pc' = [pc EXCEPT ![c] = "t_rmdir"]
       ELSE /\ pc' = [pc EXCEPT ![c] = "t_catch"]
            /\ UNCHANGED dirs
    /\ UNCHANGED << req, hash, out, cache, temp, gwindow, anim, frameNum,
                    workspace, downloads, execs >>
    /\ UNCHANGED notConvVars

\* fs.rmdir(framesDir).catch(); delete global.window, .document, ...;
\* return cachedGif
TgsRmdir(c) ==
    /\ pc[c] = "t_rmdir"
    /\ dirs' = [dirs EXCEPT ![tgsFramesDir(c)] =
                   IF @.exists /\ @.files = {} THEN NoDir ELSE @]
    /\ gwindow' = 0
    /\ Return(c, tgsCachedGif(c))
    /\ UNCHANGED << req, hash, cache, temp, downloads >>
    /\ UNCHANGED notConvVars

\* catch (error): fs.readdir(framesDir).catch(() => []) and the loop of
\* fs.unlink(file).catch()
TgsCatchReaddir(c) ==
    /\ pc[c] = "t_catch"
    /\ dirs' = [dirs EXCEPT ![tgsFramesDir(c)] = IF @.exists THEN Dir({}) ELSE @]
    /\ pc' = [pc EXCEPT ![c] = "t_catch_rmdir"]
    /\ UNCHANGED << req, hash, out, cache, temp, gwindow, anim, frameNum,
                    workspace, downloads, execs >>
    /\ UNCHANGED notConvVars

\* catch (error): fs.rmdir(framesDir).catch();
\* fs.unlink(cachedGif).catch(); return null
TgsCatchRmdir(c) ==
    /\ pc[c] = "t_catch_rmdir"
    /\ dirs' = [dirs EXCEPT ![tgsFramesDir(c)] =
                   IF @.exists /\ @.files = {} THEN NoDir ELSE @]
    /\ cache' = [cache EXCEPT ![tgsCachedGif(c)] = NoFile]
    /\ Return(c, Null)
    /\ UNCHANGED << req, hash, temp, gwindow, downloads >>
    /\ UNCHANGED notConvVars

\* ---------------------------------------------- StaticHandler (handler_static)
cachedImage(c) == cachedImageOf(hash[c])
tempImage(c) == tempImageOf(hash[c], req[c].url)

\* const hash = this.generateHash(imageUrl): resizeStaticImage declares one
\* parameter, the fileId its caller passes second is dropped
StaticKey(imageUrl, fileId) == generateHash(Href(imageUrl))

\* resizeStaticImage(url, fileId) is called: hash, then await fs.access(cached):
\* a hit returns the cache path, a miss starts the download
resizeStaticImage(c, r) ==
    /\ Arrives(c)
    /\ Kind(r.url) = "static"
    /\ req' = [req EXCEPT ![c] = r]
    /\ hash' = [hash EXCEPT ![c] = StaticKey(r.url, r.fileId)]
    /\ IF cache[cachedImageOf(hash'[c])] # NoFile
       THEN /\ pc' = [pc EXCEPT ![c] = "done"]
            /\ out' = [out EXCEPT ![c] = cachedImageOf(hash'[c])]
            /\ UNCHANGED downloads
       ELSE /\ pc' = [pc EXCEPT ![c] = "s_download"]
            /\ downloads' = [downloads EXCEPT ![c] = @ + 1]
            /\ UNCHANGED out
    /\ UNCHANGED << cache, temp, dirs, gwindow, anim, frameNum, workspace, execs >>
    /\ UNCHANGED notConvVars

\* await this.downloadFile(imageUrl, tempImage) settles: the request failed,
\* or the write stream created tempImage and then emitted error or finish;
\* on finish ffmpeg is started
StaticDownload(c) ==
    /\ pc[c] = "s_download"
    /\ \/ /\ pc' = [pc EXCEPT ![c] = "s_catch"]
          /\ UNCHANGED << temp, workspace, execs >>
       \/ /\ \E ok \in BOOLEAN :
                /\ temp' = [temp EXCEPT ![tempImage(c)] =
                               File({}, IF ok THEN "complete" ELSE "partial")]
                /\ pc' = [pc EXCEPT ![c] = IF ok THEN "s_ffmpeg" ELSE "s_catch"]
                /\ execs' = [execs EXCEPT ![c] = IF ok THEN @ + 1 ELSE @]
          /\ workspace' = [workspace EXCEPT ![c] = @ \cup {tempImage(c)}]
    /\ UNCHANGED << req, hash, out, cache, dirs, gwindow, anim, frameNum,
                    downloads >>
    /\ UNCHANGED notConvVars

\* ffmpeg -i tempImage -y cachedImage either exits with an error before
\* writing, or (only if its input exists) creates cachedImage and starts
\* writing it
StaticFfmpegOpen(c) ==
    /\ pc[c] = "s_ffmpeg"
    /\ \/ /\ pc' = [pc EXCEPT ![c] = "s_catch"]
          /\ UNCHANGED cache
       \/ /\ temp[tempImage(c)] # NoFile
          /\ cache' = [cache EXCEPT ![cachedImage(c)] = OpenTrunc(@, c)]
          /\ pc' = [pc EXCEPT ![c] = "s_resizing"]
    /\ UNCHANGED << req, hash, out, temp, dirs, gwindow, anim, frameNum,
                    workspace, downloads, execs >>
    /\ UNCHANGED notConvVars

\* ffmpeg exits
StaticFfmpegExit(c) ==
    /\ pc[c] = "s_resizing"
    /\ \E ok \in BOOLEAN :
          /\ cache' = [cache EXCEPT ![cachedImage(c)] = CloseFile(@, c, ok)]
          /\ pc' = [pc EXCEPT ![c] = IF ok THEN "s_unlink" ELSE "s_catch"]
    /\ UNCHANGED << req, hash, out, temp, dirs, gwindow, anim, frameNum,
                    workspace, downloads, execs >>
    /\ UNCHANGED notConvVars

\* fs.unlink(tempImage).catch(); return cachedImage
StaticUnlinkTemp(c) ==
    /\ pc[c] = "s_unlink"
    /\ temp' = [temp EXCEPT ![tempImage(c)] = NoFile]
    /\ Return(c, cachedImage(c))
    /\ UNCHANGED << req, hash, cache, dirs, gwindow, downloads >>
    /\ UNCHANGED notConvVars

\* catch (error): fs.unlink(tempImage).catch();
\* fs.unlink(cachedImage).catch(); throw error
StaticCatch(c) ==
    /\ pc[c] = "s_catch"
    /\ temp' = [temp EXCEPT ![tempImage(c)] = NoFile]
    /\ cache' = [cache EXCEPT ![cachedImage(c)] = NoFile]
    /\ Return(c, Thrown)
    /\ UNCHANGED << req, hash, dirs, gwindow, downloads >>
    /\ UNCHANGED notConvVars

\* ------------------------------------------ the static file names, alone
\* still-image URLs with every extension the handler tells apart, and one it
\* does not
ImageUrls == { Url("s", "1", ext) : ext \in { "png", "jpg", "jpeg", "webp", "bmp" } }
                \cup { Url("s", "2", "png") }
ImageRequests == { [url |-> u, fileId |-> f] : u \in ImageUrls, f \in { "fileS", Null } }

\* Any two requests for a still image.
ImageInit ==
    /\ ConvertersIdle /\ SweeperIdle /\ StrideIdle /\ KeysIdle /\ PickerIdle
    /\ ManageIdle /\ BotIdle /\ ProxyIdle /\ ExpiryIdle /\ WsIdle
    /\ imageReqs \in { << a, b >> : a \in ImageRequests, b \in ImageRequests }
    /\ imagePaths = << >>

\* hash, cachedImage, ext and tempImage of a call
ImagePathsOf(r) ==
    [tempImage |-> tempImageOf(StaticKey(r.url, r.fileId), r.url),
     returned |-> cachedImageOf(StaticKey(r.url, r.fileId))]

\* the two calls derive their file names
DeriveImagePaths ==
    /\ imagePaths = << >>
    /\ imagePaths' = [i \in 1..Len(imageReqs) |-> ImagePathsOf(imageReqs[i])]
    /\ UNCHANGED imageReqs
    /\ UNCHANGED notImageVars

ImageNext == DeriveImagePaths

ImageSpec == ImageInit /\ [][ImageNext]_vars

\* ------------------------------------------ CacheManager (cache_manager.js)
\* The sweeper's source is not part of the sources at hand; it is modelled
\* from the specification of the eviction sweeper (section 4.5) and from
\* the README's cache management section: every 5 minutes the entries of
\* gif-cache/ are listed and their sizes summed, and when the sum exceeds
\* 100 MB they are deleted oldest first until the running total is at or
\* below the budget.

\* 100 MB
maxCacheSize == 4

Present(dir) == { n \in ArtifactNames : dir[n] # NoArtifact }

RECURSIVE SumSizes(_, _)
SumSizes(dir, names) ==
    IF names = {} THEN 0
    ELSE LET n == CHOOSE m \in names : TRUE
         IN  dir[n].size + SumSizes(dir, names \ {n})

TotalSize(dir) == SumSizes(dir, Present(dir))

\* newest first
NewerFirst(dir, a, b) ==
    \/ dir[a].mtime > dir[b].mtime
    \/ dir[a].mtime = dir[b].mtime /\ a <= b

\* last-modified time ascending; entries of one time in listing order
OlderFirst(dir, a, b) ==
    \/ dir[a].mtime < dir[b].mtime
    \/ dir[a].mtime = dir[b].mtime /\ a <= b

RECURSIVE SortByMtime(_, _)
SortByMtime(dir, names) ==
    IF names = {} THEN << >>
    ELSE LET first == CHOOSE a \in names : \A b \in names : OlderFirst(dir, a, b)
         IN  << first >> \o SortByMtime(dir, names \ {first})

AtOrOverBudget(total) == total >= maxCacheSize

OverBudget(total) == total > maxCacheSize

\* The timer fires: list the directory, sum the sizes, and start evicting
\* when the sum exceeds the budget.
SweepScan ==
    /\ sweepPc = "idle"
    /\ Len(sweeps) < MaxSweeps
    /\ totalSize' = TotalSize(artifacts)
    /\ sweeps' = Append(sweeps, << >>)
    /\ IF OverBudget(TotalSize(artifacts))
       THEN /\ sweepPc' = "evicting"
            /\ entries' = SortByMtime(artifacts, Present(artifacts))
       ELSE /\ sweepPc' = "idle"
            /\ entries' = << >>
    /\ UNCHANGED artifacts
    /\ UNCHANGED notSweepVars

\* Delete the oldest entry left and stop once the running total is at or
\* below the budget.
SweepEvict ==
    /\ sweepPc = "evicting"
    /\ LET n == Head(entries)
           left == totalSize - artifacts[n].size
       IN  /\ artifacts' = [artifacts EXCEPT ![n] = NoArtifact]
           /\ totalSize' = left
           /\ sweeps' = [sweeps EXCEPT ![Len(sweeps)] =
                            Append(@, [name |-> n, size |-> artifacts[n].size,
                                       mtime |-> artifacts[n].mtime])]
           /\ IF OverBudget(left) /\ Tail(entries) # << >>
              THEN sweepPc' = "evicting" /\ entries' = Tail(entries)
              ELSE sweepPc' = "idle" /\ entries' = << >>
    /\ UNCHANGED notSweepVars

\* Any content of the cache directory, with the sweeper about to run.
SweepInit ==
    /\ ConvertersIdle /\ StrideIdle /\ KeysIdle /\ PickerIdle /\ RoutesIdle
    /\ artifacts \in [ArtifactNames ->
                        {NoArtifact} \cup [size : Sizes, mtime : Mtimes]]
    /\ sweepPc = "idle"
    /\ entries = << >>
    /\ totalSize = 0
    /\ sweeps = << >>

SweepNext == SweepScan \/ SweepEvict

SweepSpec == SweepInit /\ [][SweepNext]_vars

\* --------------------------------------------- the TGS frame stride, alone
\* Any declared frame rate, or none.
StrideInit ==
    /\ ConvertersIdle /\ SweeperIdle /\ KeysIdle /\ PickerIdle /\ RoutesIdle
    /\ animFr \in 0..MaxRate
    /\ step = -1

\* const step = Math.max(1, Math.round((animData.fr || 60) / targetFps))
ComputeStep ==
    /\ step = -1
    /\ step' = Step(animFr)
    /\ UNCHANGED animFr
    /\ UNCHANGED notStrideVars

StrideNext == ComputeStep

StrideSpec == StrideInit /\ [][StrideNext]_vars

\* ------------------------------------------------- key derivation, alone
FileIds == { "fileW", "fileT", "fileS" }

\* what a caller can pass to the converter of `kind`
KeyRequests(kind) ==
    { [url |-> u, fileId |-> f] : u \in { v \in Urls : Kind(v) = kind },
                                  f \in FileIds \cup {Null} }

\* the cache path a call of the converter of `kind` resolves its request to
CachePathFor(kind, r) ==
    IF kind = "webm" THEN cachedGifOf(WebmKey(r.url, r.fileId))
    ELSE IF kind = "tgs" THEN cachedGifOf(TgsKey(r.url, r.fileId))
    ELSE cachedImageOf(StaticKey(r.url, r.fileId))

\* Any converter and any two requests to it.
KeyInit ==
    /\ ConvertersIdle /\ SweeperIdle /\ StrideIdle /\ PickerIdle /\ RoutesIdle
    /\ keyReqs \in UNION { { [kind |-> k, first |-> a, second |-> b] :
                                a \in KeyRequests(k), b \in KeyRequests(k) } :
                            k \in {"webm", "tgs", "static"} }
    /\ keyPaths = << >>

\* the two calls compute hash and the cache path
DeriveKeys ==
    /\ keyPaths = << >>
    /\ keyPaths' = << CachePathFor(keyReqs.kind, keyReqs.first),
                      CachePathFor(keyReqs.kind, keyReqs.second) >>
    /\ UNCHANGED keyReqs
    /\ UNCHANGED notKeyVars

KeyNext == DeriveKeys

KeySpec == KeyInit /\ [][KeyNext]_vars

\* ------------------------------------------------ TelegramAPI (telegram-api)
NoSet == [ok |-> FALSE, stickers |-> << >>]

\* getStickerSet(setName): the set it holds, or the answer of Telegram,
\* which is not ok for a name Telegram does not know or when the request
\* fails
getStickerSet(setName) ==
    IF setName \in tgSets THEN { [ok |-> TRUE, stickers |-> StickerSets[setName]] }
    ELSE IF setName \in DOMAIN StickerSets
         THEN { [ok |-> TRUE, stickers |-> StickerSets[setName]], NoSet }
         ELSE { NoSet }

\* this.stickerCache.set(cleanName, stickerSet) when the answer was ok
Memoized(setName, set) == IF set.ok THEN tgSets \cup {setName} ELSE tgSets

\* getFileUrl(fileId): a currently valid download URL of the file, or null
\* (NoRequest.url) when getFile fails
getFileUrl(fileId) ==
    { r.url : r \in { q \in Requests : q.fileId = fileId } } \cup { NoRequest.url }

\* the URL getAllStickerUrls shows for a sticker
DisplayUrl(url, fileId, useProxy) ==
    IF useProxy THEN "/proxy/sticker?id=" \o UrlHash(fileId) ELSE Href(url)

\* the element getAllStickerUrls returns for a sticker whose URL is `url`
StickerEntry(sticker, url, useProxy) ==
    [url |-> DisplayUrl(url, sticker.file_id, useProxy), realUrl |-> Href(url),
     emoji |-> sticker.emoji, isAnimated |-> sticker.is_animated,
     isVideo |-> sticker.is_video, fileId |-> sticker.file_id]

\* results.filter(r => r !== null) for the URLs `urls` of the stickers
RECURSIVE AllStickerUrls(_, _, _)
AllStickerUrls(stickers, urls, useProxy) ==
    IF stickers = << >> THEN << >>
    ELSE (IF Head(urls) = NoRequest.url THEN << >>
          ELSE << StickerEntry(Head(stickers), Head(urls), useProxy) >>)
         \o AllStickerUrls(Tail(stickers), Tail(urls), useProxy)

\* hashUrl of every sticker whose URL was resolved
RECURSIVE HashUrls(_, _, _)
HashUrls(map, stickers, urls) ==
    IF stickers = << >> THEN map
    ELSE HashUrls(IF Head(urls) = NoRequest.url THEN map
                  ELSE [map EXCEPT ![UrlHash(Head(stickers).file_id)] =
                            [url |-> Head(urls), fileId |-> Head(stickers).file_id]],
                  Tail(stickers), Tail(urls))

\* ----------------------------------------------------- WebPicker (web-picker)
\* customPacks.find(pack => pack.name === packName), else the name itself
TelegramPackName(packName) ==
    IF \E i \in 1..Len(customPacks) : customPacks[i].name = packName
    THEN customPacks[CHOOSE i \in 1..Len(customPacks) :
                        /\ customPacks[i].name = packName
                        /\ \A j \in 1..(i - 1) : customPacks[j].name # packName
                    ].telegramName
    ELSE packName

\* s => ({url, emoji, isAnimated, isVideo})
SafeFields(stickers) ==
    [i \in 1..Len(stickers) |->
        [url |-> stickers[i].url, emoji |-> stickers[i].emoji,
         isAnimated |-> stickers[i].isAnimated, isVideo |-> stickers[i].isVideo]]

\* POST /api/slash: a session with the command's response_url, if it has one
ApiSlash(id, responseUrl) ==
    /\ sessions[id] = NoSession
    /\ sessions' = [sessions EXCEPT ![id] =
           [exists |-> TRUE, responseUrl |-> responseUrl, responseUrlDead |-> FALSE]]
    /\ UNCHANGED << build, customPacks, tgSets, send, invoked, posted, sendRes, packVars >>
    /\ UNCHANGED notPickerVars

\* generatePickerLink: a session without response_url
generatePickerLink(id) ==
    /\ sessions[id] = NoSession
    /\ sessions' = [sessions EXCEPT ![id] =
           [exists |-> TRUE, responseUrl |-> FALSE, responseUrlDead |-> FALSE]]
    /\ UNCHANGED << build, customPacks, tgSets, send, invoked, posted, sendRes, packVars >>
    /\ UNCHANGED notPickerVars

\* GET /api/pack/:name up to its await: answer from stickerCache, or look
\* the pack up
ApiPack(packName) ==
    /\ packReq.pc = "end"
    /\ IF stickerCache[packName] # << >>
       THEN /\ packRes' = [sent |-> TRUE, body |-> stickerCache[packName]]
            /\ UNCHANGED packReq
       ELSE /\ packReq' = [pc |-> "lookup", packName |-> packName,
                           telegramPackName |-> TelegramPackName(packName)]
            /\ packRes' = NoResponse
    /\ UNCHANGED << stickerCache, urlMap, deleteReq, deleteRes >>
    /\ UNCHANGED << build, customPacks, tgSets, sendVars >>
    /\ UNCHANGED notPickerVars

\* getAllStickerUrls settles: cache a non-empty list, and answer
ApiPackSettles ==
    /\ packReq.pc = "lookup"
    /\ \E set \in getStickerSet(packReq.telegramPackName) :
       \E urls \in [1..Len(set.stickers) ->
                      UNION { getFileUrl(f) : f \in FileIds }] :
         /\ \A i \in 1..Len(set.stickers) : urls[i] \in getFileUrl(set.stickers[i].file_id)
         /\ LET useProxy == build = "part_003"
                stickers == AllStickerUrls(set.stickers, urls, useProxy)
            IN  /\ tgSets' = Memoized(packReq.telegramPackName, set)
                /\ urlMap' = HashUrls(urlMap, set.stickers, urls)
                /\ stickerCache' = IF Len(stickers) > 0
                                   THEN [stickerCache EXCEPT ![packReq.packName] = stickers]
                                   ELSE stickerCache
                /\ packRes' = [sent |-> TRUE,
                               body |-> IF build = "part_003" THEN SafeFields(stickers)
                                        ELSE stickers]
    /\ packReq' = NoPackReq
    /\ UNCHANGED << deleteReq, deleteRes >>
    /\ UNCHANGED << build, customPacks, sendVars >>
    /\ UNCHANGED notPickerVars

\* customPacks.filter(pack => pack.name !== packName)
RECURSIVE Without(_, _)
Without(packs, packName) ==
    IF packs = << >> THEN << >>
    ELSE (IF Head(packs).name # packName THEN << Head(packs) >> ELSE << >>)
         \o Without(Tail(packs), packName)

AnyToken(token) == TRUE

\* token === process.env.MM_BOT_TOKEN
TokenMatches(token) == token = MM_BOT_TOKEN

\* the deleted pack's stickers stay in stickerCache
ApiDeletePackKeepsCache(token, packName) ==
    /\ deleteReq' = [n |-> 1 - deleteReq.n, token |-> token, packName |-> packName]
    /\ IF ~TokenMatches(token)
       THEN deleteRes' = 401 /\ UNCHANGED customPacks
       ELSE IF Len(Without(customPacks, packName)) = Len(customPacks)
       THEN deleteRes' = 404 /\ UNCHANGED customPacks
       ELSE /\ customPacks' = Without(customPacks, packName)
            /\ deleteRes' = 200
    /\ UNCHANGED << stickerCache, urlMap, packReq, packRes >>
    /\ UNCHANGED << build, tgSets, sendVars >>
    /\ UNCHANGED notPickerVars

\* POST /api/delete-pack
ApiDeletePack(token, packName) ==
    /\ deleteReq' = [n |-> 1 - deleteReq.n, token |-> token, packName |-> packName]
    /\ IF ~TokenMatches(token)
       THEN deleteRes' = 401 /\ UNCHANGED << customPacks, stickerCache >>
       ELSE IF Len(Without(customPacks, packName)) = Len(customPacks)
       THEN deleteRes' = 404 /\ UNCHANGED << customPacks, stickerCache >>
       ELSE /\ customPacks' = Without(customPacks, packName)
            /\ stickerCache' = [stickerCache EXCEPT ![packName] = << >>]
            /\ deleteRes' = 200
    /\ UNCHANGED << urlMap, packReq, packRes >>
    /\ UNCHANGED << build, tgSets, sendVars >>
    /\ UNCHANGED notPickerVars

\* Either picker source, with any custom-packs file.
PackInit ==
    /\ ConvertersIdle /\ SweeperIdle /\ StrideIdle /\ KeysIdle /\ RoutesIdle
    /\ build \in { "part_003", "web-ui" }
    /\ customPacks \in CustomPackLists
    /\ tgSets = {}
    /\ sessions = [i \in SessionIds |-> NoSession]
    /\ send = NoSend
    /\ invoked = {}
    /\ posted = << >>
    /\ sendRes = << >>
    /\ stickerCache = [n \in PackNames |-> << >>]
    /\ urlMap = [h \in UrlHashes |-> NoRequest]
    /\ packReq = NoPackReq
    /\ packRes = NoResponse
    /\ deleteReq = NoDelete
    /\ deleteRes = 0

PackNext ==
    \/ \E packName \in PackNames : ApiPack(packName)
    \/ ApiPackSettles
    \/ \E token \in Tokens, packName \in PackNames : ApiDeletePack(token, packName)

PackSpec == PackInit /\ [][PackNext]_vars

\* ------------------------------------- WebPicker: the list of sticker packs
\* what POST /api/add-pack can carry as packName and as packUrl
AddNames == { "memezey", "mine", Null }
PackUrls == { PackUrl("t.me/addstickers/", "minepack"),
              PackUrl("telegram.me/addstickers/", "memezey"),
              PackUrl("example.com/", "minepack"), NoPackUrl }

\* String.prototype.toLowerCase on the names of the model
ToLowerCase(name) ==
    CASE name = "Mine" -> "mine"
      [] name = "Help" -> "help"
      [] name = "@StickerBot" -> "@stickerbot"
      [] OTHER -> name

\* packUrl.match(/(?:t\.me\/addstickers\/|telegram\.me\/addstickers\/)([^\/\?\#]+)/i)
UrlMatch(packUrl) ==
    IF packUrl.host \in { "t.me/addstickers/", "telegram.me/addstickers/" }
    THEN packUrl.name ELSE Null

\* getCustomPacks().map(pack => pack.name)
NamesOf(packs) == [i \in 1..Len(packs) |-> packs[i].name]

CustomOnly(packs) == NamesOf(packs)

\* [...defaultPacks, ...customPacks]
AllPacks(packs) == defaultPacks \o NamesOf(packs)

\* GET /api/packs
ApiPacks ==
    /\ packsRes' = [sent |-> TRUE, body |-> AllPacks(customPacks)]
    /\ UNCHANGED addRes
    /\ UNCHANGED pickerVars
    /\ UNCHANGED notManageVars

\* only the names are compared
ExistingName(packs, packName, telegramPackName) ==
    \E i \in 1..Len(packs) : ToLowerCase(packs[i].name) = ToLowerCase(packName)

\* customPacks.find(pack => pack.name.toLowerCase() === packName.toLowerCase()
\*                          || pack.telegramName === telegramPackName)
ExistingPack(packs, packName, telegramPackName) ==
    \E i \in 1..Len(packs) :
        \/ ToLowerCase(packs[i].name) = ToLowerCase(packName)
        \/ packs[i].telegramName = telegramPackName

\* POST /api/add-pack, with addCustomPack
ApiAddPack(packName, packUrl) ==
    /\ IF packName = Null \/ packUrl = NoPackUrl
       THEN addRes' = 400 /\ UNCHANGED customPacks
       ELSE IF UrlMatch(packUrl) = Null
       THEN addRes' = 400 /\ UNCHANGED customPacks
       ELSE IF ExistingPack(customPacks, packName, UrlMatch(packUrl))
       THEN addRes' = 500 /\ UNCHANGED customPacks
       ELSE /\ customPacks' = Append(customPacks,
                                  [name |-> packName, telegramName |-> UrlMatch(packUrl)])
            /\ addRes' = 200
    /\ UNCHANGED << build, tgSets, sendVars, packVars, packsRes >>
    /\ UNCHANGED notManageVars

\* Either picker source, with any custom-packs file.
ManageInit ==
    /\ ConvertersIdle /\ SweeperIdle /\ StrideIdle /\ KeysIdle /\ RoutesIdle
    /\ build \in { "part_003", "web-ui" }
    /\ customPacks \in CustomPackLists
    /\ tgSets = {}
    /\ sessions = [i \in SessionIds |-> NoSession]
    /\ send = NoSend
    /\ invoked = {}
    /\ posted = << >>
    /\ sendRes = << >>
    /\ stickerCache = [n \in PackNames |-> << >>]
    /\ urlMap = [h \in UrlHashes |-> NoRequest]
    /\ packReq = NoPackReq
    /\ packRes = NoResponse
    /\ deleteReq = NoDelete
    /\ deleteRes = 0

ManageNext ==
    \/ ApiPacks
    \/ \E packName \in AddNames, packUrl \in PackUrls : ApiAddPack(packName, packUrl)
    \/ \E token \in Tokens, packName \in PackNames : ApiDeletePack(token, packName)

ManageSpec == ManageInit /\ [][ManageNext]_vars

\* ------------------------------------- WebPicker: GET /proxy/sticker
\* req.query.id: the hash of a sticker, or none
ProxyIds == UrlHashes \cup { Null }

\* how the upstream request for the file can end: a response, HTTP 404, or
\* any other error
FetchOutcomes == { "ok", "404", "error" }

\* the entries hashUrl can have stored for a hash
UrlEntries(h) == { r \in Requests : r.fileId # Null /\ UrlHash(r.fileId) = h }

RefreshOnAnyError(attempt, outcome) == outcome # "ok"

\* attempt === 0 && error.response?.status === 404
ShouldRefresh(attempt, outcome) == attempt = 0 /\ outcome = "404"

\* GET /proxy/sticker up to the first await axios: the id, getUrlFromHash
ProxySticker(id) ==
    /\ proxyReq.pc = "end"
    /\ IF id = Null
       THEN /\ proxyRes' = << 400 >>
            /\ proxyReq' = [NoProxyReq EXCEPT !.hash = id]
       ELSE IF urlMap[id] = NoRequest
       THEN /\ proxyRes' = << 404 >>
            /\ proxyReq' = [NoProxyReq EXCEPT !.hash = id]
       ELSE /\ proxyRes' = << >>
            /\ proxyReq' = [NoProxyReq EXCEPT !.pc = "fetch", !.hash = id,
                                              !.url = urlMap[id].url]
    /\ UNCHANGED pickerVars
    /\ UNCHANGED notProxyVars

\* the upstream request settles: the file is sent, or the URL is refreshed
\* (refreshUrl up to await getFileUrl), or the request is answered 500
ProxyFetchSettles(outcome) ==
    /\ proxyReq.pc = "fetch"
    /\ IF outcome = "ok"
       THEN /\ proxyRes' = Append(proxyRes, 200)
            /\ proxyReq' = [proxyReq EXCEPT !.pc = "end",
                                            !.fetches = Append(@, outcome)]
       ELSE IF ShouldRefresh(proxyReq.attempt, outcome)
       THEN /\ proxyReq' = [proxyReq EXCEPT !.pc = "refresh",
                                            !.fetches = Append(@, outcome)]
            /\ UNCHANGED proxyRes
       ELSE /\ proxyRes' = Append(proxyRes, 500)
            /\ proxyReq' = [proxyReq EXCEPT !.pc = "end",
                                            !.fetches = Append(@, outcome)]
    /\ UNCHANGED pickerVars
    /\ UNCHANGED notProxyVars

\* getFileUrl settles in refreshUrl: with a fresh URL the entry is updated and
\* the loop continues (attempt++, attempt < 2), with null the answer is 500
ProxyRefreshSettles(freshUrl) ==
    /\ proxyReq.pc = "refresh"
    /\ freshUrl \in getFileUrl(urlMap[proxyReq.hash].fileId)
    /\ IF freshUrl = NoRequest.url
       THEN /\ proxyRes' = Append(proxyRes, 500)
            /\ proxyReq' = [proxyReq EXCEPT !.pc = "end",
                                            !.refreshes = Append(@, FALSE)]
            /\ UNCHANGED urlMap
       ELSE /\ urlMap' = [urlMap EXCEPT ![proxyReq.hash].url = freshUrl]
            /\ proxyReq' = [proxyReq EXCEPT
                               !.pc = IF proxyReq.attempt + 1 < 2 THEN "fetch" ELSE "end",
                               !.url = freshUrl,
                               !.attempt = @ + 1,
                               !.refreshes = Append(@, TRUE)]
            /\ UNCHANGED proxyRes
    /\ UNCHANGED << build, customPacks, tgSets, sendVars, stickerCache, packReq,
                    packRes, deleteReq, deleteRes >>
    /\ UNCHANGED notProxyVars

\* The picker with any URLs hashed so far.
ProxyInit ==
    /\ ConvertersIdle /\ SweeperIdle /\ StrideIdle /\ KeysIdle
    /\ ManageIdle /\ BotIdle /\ ImagesIdle /\ ProxyIdle /\ ExpiryIdle /\ WsIdle
    /\ build = "part_003"
    /\ customPacks = << >>
    /\ tgSets = {}
    /\ sessions = [i \in SessionIds |-> NoSession]
    /\ send = NoSend
    /\ invoked = {}
    /\ posted = << >>
    /\ sendRes = << >>
    /\ stickerCache = [n \in PackNames |-> << >>]
    /\ urlMap \in { m \in [UrlHashes -> Requests \cup { NoRequest }] :
                       \A h \in UrlHashes : m[h] \in UrlEntries(h) \cup { NoRequest } }
    /\ packReq = NoPackReq
    /\ packRes = NoResponse
    /\ deleteReq = NoDelete
    /\ deleteRes = 0

ProxyNext ==
    \/ \E id \in ProxyIds : ProxySticker(id)
    \/ \E outcome \in FetchOutcomes : ProxyFetchSettles(outcome)
    \/ \E freshUrl \in Urls \cup { NoRequest.url } : ProxyRefreshSettles(freshUrl)

ProxySpec == ProxyInit /\ [][ProxyNext]_vars

\* ------------------------------------ WebPicker: the lifetime of sessions
\* 10 * 60 * 1000 ms, in minutes
SessionTtl == 10

\* this.sessions.has(id)
HasSession(id) == created[id] >= 0

\* sessions.set(sessionId, {..., created: Date.now()})
SetSession(map, id) == [map EXCEPT ![id] = now]

\* for (const [id, session] of this.sessions)
\*     if (Date.now() - session.created > 10 * 60 * 1000) this.sessions.delete(id)
CleanUp(map) ==
    [id \in DOMAIN map |->
        IF map[id] >= 0 /\ now - map[id] > SessionTtl THEN -1 ELSE map[id]]

\* a minute passes
Minute ==
    /\ now < MaxClock
    /\ now' = now + 1
    /\ UNCHANGED << created, lastSend >>
    /\ UNCHANGED notExpiryVars

\* POST /api/session: a new session, then the clean-up of old ones
ApiSession(id) ==
    /\ created' = CleanUp(SetSession(created, id))
    /\ UNCHANGED << now, lastSend >>
    /\ UNCHANGED notExpiryVars

\* POST /api/slash and generatePickerLink: a new session
StampSession(id) ==
    /\ created' = SetSession(created, id)
    /\ UNCHANGED << now, lastSend >>
    /\ UNCHANGED notExpiryVars

\* POST /api/send: 400 unless this.sessions.get(sessionId) gives a session
SendWithSession(id) ==
    /\ lastSend' = IF HasSession(id)
                   THEN [id |-> id, status |-> 200, age |-> now - created[id]]
                   ELSE [id |-> id, status |-> 400, age |-> 0]
    /\ UNCHANGED << now, created >>
    /\ UNCHANGED notExpiryVars

ExpiryInit == Init

ExpiryNext ==
    \/ Minute
    \/ \E id \in StampedIds : ApiSession(id)
    \/ \E id \in StampedIds : StampSession(id)
    \/ \E id \in StampedIds : SendWithSession(id)

ExpirySpec == ExpiryInit /\ [][ExpiryNext]_vars

\* ------------------------------------ StickerBot: the WebSocket (part_000)
\* setTimeout(..., 5000), in seconds
ReconnectDelay == 5

\* new WebSocket(this.wsUrl, ...)
NewSocket == [state |-> "connecting", errored |-> FALSE]

\* sequence s without its element i
RemoveAt(s, i) == [k \in 1..(Len(s) - 1) |-> IF k < i THEN s[k] ELSE s[k + 1]]

\* ws.on('error') also schedules a reconnect
ReconnectOnError(ts) == Append(ts, ReconnectDelay)

\* ws.on('error'): the error is logged
OnError(ts) == ts

\* ws.on('close'): setTimeout(() => this.connectWebSocket(), 5000)
OnClose(ts) == Append(ts, ReconnectDelay)

\* connect(): the first connectWebSocket()
Connect ==
    /\ attempts = 0
    /\ sockets' = Append(sockets, NewSocket)
    /\ attempts' = 1
    /\ UNCHANGED << timers, closes >>
    /\ UNCHANGED notWsVars

\* 'open': the authentication challenge is sent
WsOpen(i) ==
    /\ sockets[i].state = "connecting" /\ ~sockets[i].errored
    /\ sockets' = [sockets EXCEPT ![i].state = "open"]
    /\ UNCHANGED << timers, closes, attempts >>
    /\ UNCHANGED notWsVars

\* 'error': a failed handshake or a broken connection; 'close' follows
WsError(i) ==
    /\ ~sockets[i].errored
    /\ sockets' = [sockets EXCEPT ![i].errored = TRUE]
    /\ timers' = OnError(timers)
    /\ UNCHANGED << closes, attempts >>
    /\ UNCHANGED notWsVars

\* 'close': emitted once per socket
WsClose(i) ==
    /\ closes < MaxCloses
    /\ sockets' = RemoveAt(sockets, i)
    /\ timers' = OnClose(timers)
    /\ closes' = closes + 1
    /\ UNCHANGED attempts
    /\ UNCHANGED notWsVars

\* a second passes with no timer due
Second ==
    /\ timers # << >>
    /\ \A j \in 1..Len(timers) : timers[j] > 0
    /\ timers' = [j \in 1..Len(timers) |-> timers[j] - 1]
    /\ UNCHANGED << sockets, closes, attempts >>
    /\ UNCHANGED notWsVars

\* a timer is due: its callback calls connectWebSocket()
TimerFires(j) ==
    /\ timers[j] = 0
    /\ timers' = RemoveAt(timers, j)
    /\ sockets' = Append(sockets, NewSocket)
    /\ attempts' = attempts + 1
    /\ UNCHANGED closes
    /\ UNCHANGED notWsVars

WsInit == Init

WsNext ==
    \/ Connect
    \/ \E i \in 1..Len(sockets) : WsOpen(i)
    \/ \E i \in 1..Len(sockets) : WsError(i)
    \/ \E i \in 1..Len(sockets) : WsClose(i)
    \/ Second
    \/ \E j \in 1..Len(timers) : TimerFires(j)

\* Node's timers fire when due, and time passes.
WsSpec ==
    /\ WsInit /\ [][WsNext]_vars
    /\ WF_vars(Second)
    /\ WF_vars(\E j \in 1..Len(timers) : TimerFires(j))

\* ------------------------------------ StickerBot: mentions (part_000)
supportedChannelTypes == { "O", "P", "D", "G" }

\* any text counts as a mention
AnyText(mention) == TRUE

\* message.includes(botMention.toLowerCase()) || message.includes('@stickerbot')
Mentioned(mention) ==
    \/ ToLowerCase(mention) = ToLowerCase("<@" \o botId \o ">")
    \/ ToLowerCase(mention) = "@stickerbot"

\* cleanMessage.split(' ').filter(p => p), of the lower-cased message
Parts(words) == [i \in 1..Len(words) |-> ToLowerCase(words[i])]

\* the texts the bot replies with
HelpText == [kind |-> "help", session |-> Null]
PickerText(id) == [kind |-> "picker", session |-> id]
UnknownText == [kind |-> "unknown", session |-> Null]

\* axios.delete(`${serverUrl}/api/v4/posts/${post.id}`)
DeletePost(p) == [op |-> "delete", post |-> p, text |-> [kind |-> Null, session |-> Null]]

PublicPost(p, text) == [op |-> "post", post |-> p, text |-> text]

\* sendEphemeralPost: axios.post(`${serverUrl}/api/v4/posts/ephemeral`)
sendEphemeralPost(p, text) == [op |-> "ephemeral", post |-> p, text |-> text]

\* ws.on('message') for a 'posted' event, up to await getChannelInfo
WsMessage(p, userId) ==
    /\ posts[p].pc = "new"
    /\ posts' = [posts EXCEPT ![p].pc =
                    IF userId = botId THEN "ignored" ELSE "channelInfo"]
    /\ UNCHANGED << mmCalls, sessionChannel >>
    /\ UNCHANGED pickerVars
    /\ UNCHANGED notBotVars

\* getChannelInfo settles; handleMessage up to await axios.delete
handleMessage(p, channelType, mention) ==
    /\ posts[p].pc = "channelInfo"
    /\ IF channelType \notin supportedChannelTypes \/ ~Mentioned(mention)
       THEN /\ posts' = [posts EXCEPT ![p].pc = "ignored"]
            /\ UNCHANGED mmCalls
       ELSE /\ posts' = [posts EXCEPT ![p].pc = "delete"]
            /\ mmCalls' = Append(mmCalls, DeletePost(p))
    /\ UNCHANGED sessionChannel
    /\ UNCHANGED pickerVars
    /\ UNCHANGED notBotVars

\* axios.delete settles, with or without an error: await the 500 ms delay
DeleteSettles(p, ok) ==
    /\ posts[p].pc = "delete"
    /\ posts' = [posts EXCEPT ![p].pc = "delay",
                              ![p].deleted = IF ok THEN "deleted" ELSE "failed"]
    /\ UNCHANGED << mmCalls, sessionChannel >>
    /\ UNCHANGED pickerVars
    /\ UNCHANGED notBotVars

\* after the delay: the command, up to the await of its first request
HandleCommand(p, words) ==
    /\ posts[p].pc = "delay"
    /\ IF Parts(words) = << >> \/ Parts(words)[1] = "help"
       THEN /\ posts' = [posts EXCEPT ![p].pc = "reply", ![p].words = words]
            /\ mmCalls' = Append(mmCalls, sendEphemeralPost(p, HelpText))
       ELSE IF Parts(words)[1] = "ass"
       THEN /\ posts' = [posts EXCEPT ![p].pc = "userInfo", ![p].words = words]
            /\ UNCHANGED mmCalls
       ELSE /\ posts' = [posts EXCEPT ![p].pc = "reply", ![p].words = words]
            /\ mmCalls' = Append(mmCalls, sendEphemeralPost(p, UnknownText))
    /\ UNCHANGED sessionChannel
    /\ UNCHANGED pickerVars
    /\ UNCHANGED notBotVars

\* getUserInfo settles: generatePickerLink, then the link as an ephemeral post
SendPickerLink(p, id) ==
    /\ posts[p].pc = "userInfo"
    /\ sessions' = [sessions EXCEPT ![id] =
           [exists |-> TRUE, responseUrl |-> FALSE, responseUrlDead |-> FALSE]]
    /\ sessionChannel' = [sessionChannel EXCEPT ![id] = ChannelOf(p)]
    /\ mmCalls' = Append(mmCalls, sendEphemeralPost(p, PickerText(id)))
    /\ posts' = [posts EXCEPT ![p].pc = "reply"]
    /\ UNCHANGED << build, customPacks, tgSets, send, invoked, posted, sendRes, packVars >>
    /\ UNCHANGED notBotVars

\* the ephemeral post settles, with or without an error: handleMessage returns
ReplySettles(p) ==
    /\ posts[p].pc = "reply"
    /\ posts' = [posts EXCEPT ![p].pc = "done"]
    /\ UNCHANGED << mmCalls, sessionChannel >>
    /\ UNCHANGED pickerVars
    /\ UNCHANGED notBotVars

BotInit == Init

BotNext ==
    \E p \in PostIds :
        \/ \E userId \in UserIds : WsMessage(p, userId)
        \/ \E channelType \in ChannelTypes, mention \in Mentions :
               handleMessage(p, channelType, mention)
        \/ \E ok \in BOOLEAN : DeleteSettles(p, ok)
        \/ \E words \in Commands : HandleCommand(p, words)
        \/ \E id \in SessionIds : SendPickerLink(p, id)
        \/ ReplySettles(p)

BotSpec == BotInit /\ [][BotNext]_vars

\* ------------------------------------------ WebPicker: POST /api/send
\* req.body.stickerIndex
StickerIndexes == 0..2

\* `![sticker](${fileUrl})` with fileUrl the uploaded file's Mattermost URL
FileText == "![sticker](mattermost/api/v4/files/fileInfo.id)"

\* `![sticker](${sticker})` with the Telegram URL of the sticker
RawText(url) == "![sticker](" \o Href(url) \o ")"

\* a post made through the response_url, or by sendFileAsPost (the file
\* attached), or by bot.sendMessage (the mention in front)
ViaResponseUrl(text) == [text |-> text, file_ids |-> 0]
FilePost == [text |-> "", file_ids |-> 1]
MessagePost(text) == [text |-> "@username " \o text, file_ids |-> 0]

\* the handler goes on to its next await
Continue(s, position, converters) ==
    /\ send' = [s EXCEPT !.pc = position]
    /\ invoked' = converters
    /\ UNCHANGED sendRes

\* the handler answers and ends
Respond(s, status) ==
    /\ send' = [s EXCEPT !.pc = "end"]
    /\ sendRes' = Append(sendRes, status)
    /\ UNCHANGED invoked

\* an awaited call rejects outside every try block: the handler ends with
\* no answer
Rejects(s) ==
    /\ send' = [s EXCEPT !.pc = "hung"]
    /\ UNCHANGED << sendRes, invoked >>

\* No GIF was made.  part_003: resize unless the URL has .tgs, else answer
\* 500; web-picker.js: post the sticker's URL.
NoGif(s) ==
    IF build = "part_003"
    THEN IF Kind(s.stickerUrl) # "tgs"
         THEN Continue(s, "static", invoked \cup {"static"})
         ELSE Respond(s, 500)
    ELSE Continue(s, "rawpost", invoked)

\* the session is not looked up before the handler goes on
ApiSendUnchecked(id, packName, stickerIndex) ==
    /\ send.pc \in {"end", "hung"}
    /\ posted' = << >>
    /\ invoked' = {}
    /\ send' = [NoSend EXCEPT !.pc = "lookup", !.sessionId = id,
                              !.packName = packName, !.stickerIndex = stickerIndex]
    /\ sendRes' = << >>
    /\ UNCHANGED << build, customPacks, tgSets, sessions, packVars >>
    /\ UNCHANGED notPickerVars

\* POST /api/send up to its first await
ApiSend(id, packName, stickerIndex) ==
    /\ send.pc \in {"end", "hung"}
    /\ posted' = << >>
    /\ invoked' = {}
    /\ IF ~sessions[id].exists
       THEN /\ send' = [NoSend EXCEPT !.sessionId = id, !.packName = packName,
                                      !.stickerIndex = stickerIndex]
            /\ sendRes' = << 400 >>
       ELSE /\ send' = [NoSend EXCEPT !.pc = "lookup", !.sessionId = id,
                                      !.packName = packName,
                                      !.stickerIndex = stickerIndex]
            /\ sendRes' = << >>
    /\ UNCHANGED << build, customPacks, tgSets, sessions, packVars >>
    /\ UNCHANGED notPickerVars

\* getStickerInfo (web-picker.js: getStickerUrl) settles, and the sticker
\* is handed to the converter its URL names
SendLookup ==
    /\ send.pc = "lookup"
    /\ \E set \in getStickerSet(TelegramPackName(send.packName)) :
         /\ tgSets' = Memoized(TelegramPackName(send.packName), set)
         /\ IF ~set.ok \/ send.stickerIndex + 1 > Len(set.stickers)
            THEN Respond(send, 400)
            ELSE LET sticker == set.stickers[send.stickerIndex + 1]
                 IN  \E url \in getFileUrl(sticker.file_id) :
                       IF url = NoRequest.url
                       THEN Respond(send, 400)
                       ELSE LET s == [send EXCEPT
                                        !.stickerUrl = url,
                                        !.fileId = IF build = "part_003"
                                                   THEN sticker.file_id ELSE Null]
                            IN  IF Kind(url) = "webm"
                                THEN Continue(s, "webm", {"webm"})
                                ELSE IF Kind(url) = "tgs"
                                THEN Continue(s, "tgs", {"tgs"})
                                ELSE NoGif(s)
    /\ UNCHANGED << build, customPacks, sessions, posted, packVars >>
    /\ UNCHANGED notPickerVars

\* convertWebmToGif settles: a path, or it throws
SendWebm ==
    /\ send.pc = "webm"
    /\ \E gifFilePath \in { cachedGifOf(WebmKey(send.stickerUrl, send.fileId)), Thrown } :
         IF gifFilePath # Thrown
         THEN Continue([send EXCEPT !.branch = "gif"], "upload", invoked)
         ELSE NoGif(send)
    /\ UNCHANGED << build, customPacks, tgSets, sessions, posted, packVars >>
    /\ UNCHANGED notPickerVars

\* convertTgsToGif settles: a path, or null
SendTgs ==
    /\ send.pc = "tgs"
    /\ \E gifFilePath \in { cachedGifOf(TgsKey(send.stickerUrl, send.fileId)), Null } :
         IF gifFilePath # Null
         THEN Continue([send EXCEPT !.branch = "gif"], "upload", invoked)
         ELSE NoGif(send)
    /\ UNCHANGED << build, customPacks, tgSets, sessions, posted, packVars >>
    /\ UNCHANGED notPickerVars

\* resizeStaticImage settles: a path, or it throws into the catch
SendStatic ==
    /\ send.pc = "static"
    /\ \E resizedPath \in { cachedImageOf(StaticKey(send.stickerUrl, send.fileId)), Thrown } :
         IF resizedPath # Thrown
         THEN Continue([send EXCEPT !.branch = "static"], "upload", invoked)
         ELSE Respond(send, 500)
    /\ UNCHANGED << build, customPacks, tgSets, sessions, posted, packVars >>
    /\ UNCHANGED notPickerVars

\* the mark on the session is not looked at
DeadMarkIgnored(session) == FALSE

\* postFile: session.responseUrl is set and session.responseUrlDead is true
KnownDead(session) == session.responseUrl /\ session.responseUrlDead

\* uploadFile settles.  part_003: postFile then answers 410 at once for a
\* response_url known dead; an upload of the GIF that rejects is outside
\* every try block.  web-picker.js: a rejection falls back to the URL post.
SendUpload ==
    /\ send.pc = "upload"
    /\ \E uploaded \in BOOLEAN :
         IF build = "part_003"
         THEN IF uploaded
              THEN IF KnownDead(sessions[send.sessionId])
                   THEN Respond(send, 410)
                   ELSE Continue(send, "post", invoked)
              ELSE IF send.branch = "gif" THEN Rejects(send) ELSE Respond(send, 500)
         ELSE IF uploaded
              THEN Continue(send, "post", invoked)
              ELSE Continue(send, "rawpost", invoked)
    /\ UNCHANGED << build, customPacks, tgSets, sessions, posted, packVars >>
    /\ UNCHANGED notPickerVars

\* The post of the uploaded file settles: through the response_url when
\* the session has one, else by sendFileAsPost.  part_003: a failed
\* response_url marks the session dead and answers 410.  web-picker.js: a
\* failed response_url falls back to sendFileAsPost, and a failure of that
\* to the URL post.
SendPost ==
    /\ send.pc = "post"
    /\ \E viaUrl \in BOOLEAN, asPost \in BOOLEAN :
         IF sessions[send.sessionId].responseUrl
         THEN IF viaUrl
              THEN /\ posted' = Append(posted, ViaResponseUrl(FileText))
                   /\ Respond(send, 200)
                   /\ UNCHANGED sessions
              ELSE IF build = "part_003"
              THEN /\ sessions' = [sessions EXCEPT
                                     ![send.sessionId].responseUrlDead = TRUE]
                   /\ Respond(send, 410)
                   /\ UNCHANGED posted
              ELSE IF asPost
              THEN /\ posted' = Append(posted, FilePost)
                   /\ Respond(send, 200)
                   /\ UNCHANGED sessions
              ELSE /\ Continue(send, "rawpost", invoked)
                   /\ UNCHANGED << posted, sessions >>
         ELSE IF asPost
              THEN /\ posted' = Append(posted, FilePost)
                   /\ Respond(send, 200)
                   /\ UNCHANGED sessions
              ELSE /\ IF build = "part_003"
                      THEN IF send.branch = "gif"
                           THEN Rejects(send) ELSE Respond(send, 500)
                      ELSE Continue(send, "rawpost", invoked)
                   /\ UNCHANGED << posted, sessions >>
    /\ UNCHANGED << build, customPacks, tgSets, packVars >>
    /\ UNCHANGED notPickerVars

\* web-picker.js: the sticker's URL is posted through the response_url,
\* or by bot.sendMessage, which swallows its own failure; then success
SendRawPost ==
    /\ send.pc = "rawpost"
    /\ \E viaUrl \in BOOLEAN, sent \in BOOLEAN :
         posted' = IF sessions[send.sessionId].responseUrl /\ viaUrl
                   THEN Append(posted, ViaResponseUrl(RawText(send.stickerUrl)))
                   ELSE IF sent
                   THEN Append(posted, MessagePost(RawText(send.stickerUrl)))
                   ELSE posted
    /\ Respond(send, 200)
    /\ UNCHANGED << build, customPacks, tgSets, sessions, packVars >>
    /\ UNCHANGED notPickerVars

\* Either picker source, with any custom-packs file and no session yet.
SendInit == PackInit

SendNext ==
    \/ \E id \in SessionIds, responseUrl \in BOOLEAN : ApiSlash(id, responseUrl)
    \/ \E id \in SessionIds : generatePickerLink(id)
    \/ \E id \in SessionIds, packName \in PackNames, stickerIndex \in StickerIndexes :
          ApiSend(id, packName, stickerIndex)
    \/ SendLookup
    \/ SendWebm
    \/ SendTgs
    \/ SendStatic
    \/ SendUpload
    \/ SendPost
    \/ SendRawPost

SendSpec == SendInit /\ [][SendNext]_vars

\* ------------------------------- WebPicker: a pack listed, a sticker sent
\* GET /api/pack/:name and POST /api/send side by side
DeliverInit == PackInit

DeliverNext ==
    \/ \E packName \in PackNames : ApiPack(packName)
    \/ ApiPackSettles
    \/ \E id \in SessionIds, responseUrl \in BOOLEAN : ApiSlash(id, responseUrl)
    \/ \E id \in SessionIds, packName \in PackNames, stickerIndex \in StickerIndexes :
          ApiSend(id, packName, stickerIndex)
    \/ SendLookup
    \/ SendWebm
    \/ SendTgs
    \/ SendStatic
    \/ SendUpload
    \/ SendPost
    \/ SendRawPost

DeliverSpec == DeliverInit /\ [][DeliverNext]_vars

\* ------------------------------------------------------------ specification
Next ==
    \/ \E c \in Calls, r \in Requests : convertWebmToGif(c, r)
    \/ \E c \in Calls : WebmDownload(c)
    \/ \E c \in Calls : WebmMkdir(c)
    \/ \E c \in Calls : WebmFfmpeg(c)
    \/ \E c \in Calls : WebmGifskiOpen(c)
    \/ \E c \in Calls : WebmGifskiExit(c)
    \/ \E c \in Calls : WebmReaddir(c)
    \/ \E c \in Calls : WebmRmdir(c)
    \/ \E c \in Calls : WebmCatch(c)
    \/ \E c \in Calls, r \in Requests : convertTgsToGif(c, r)
    \/ \E c \in Calls : TgsAxios(c)
    \/ \E c \in Calls : TgsMkdir(c)
    \/ \E c \in Calls : TgsWriteFile(c)
    \/ \E c \in Calls : TgsGifskiOpen(c)
    \/ \E c \in Calls : TgsGifskiExit(c)
    \/ \E c \in Calls : TgsReaddir(c)
    \/ \E c \in Calls : TgsRmdir(c)
    \/ \E c \in Calls : TgsCatchReaddir(c)
    \/ \E c \in Calls : TgsCatchRmdir(c)
    \/ \E c \in Calls, r \in Requests : resizeStaticImage(c, r)
    \/ \E c \in Calls : StaticDownload(c)
    \/ \E c \in Calls : StaticFfmpegOpen(c)
    \/ \E c \in Calls : StaticFfmpegExit(c)
    \/ \E c \in Calls : StaticUnlinkTemp(c)
    \/ \E c \in Calls : StaticCatch(c)

Spec == Init /\ [][Next]_vars

\* ------------------------------------------------------------------ claims
Returns(c) == pc[c] # "done" /\ pc'[c] = "done"

IsPath(v) == v \notin {Null, Thrown}

\* the cache path a call reads and writes
CachePathOf(c) ==
    IF Kind(req[c].url) = "static" THEN cachedImageOf(hash[c]) ELSE cachedGifOf(hash[c])

\* whether a temp path (download or frames directory) is on disk
Exists(p) == IF p \in TempFiles THEN temp[p] # NoFile ELSE dirs[p].exists

\* the call is in its catch block
InCatch(c) == pc[c] \in {"w_catch", "t_catch", "t_catch_rmdir", "s_catch"}

\* C1: every file in the cache directory is the complete output of a
\* conversion that finished successfully, in every reachable state,
\* including while an encoder is running.
C1_CacheHoldsOnlyCompleteArtifacts ==
    \A p \in CachePaths : cache[p] # NoFile => cache[p].state = "complete"

\* C2: when a convert call of any converter ends in failure (it throws, or
\* the TGS converter returns null), nothing the call created is left in the
\* temp directory and the cache has no entry for its key.
C2_FailureLeavesNoResidue ==
    [][\A c \in Calls :
          (Returns(c) /\ ~IsPath(out'[c])) =>
             /\ \A p \in workspace[c] : ~Exists(p)'
             /\ cache'[CachePathOf(c)'] = NoFile]_vars

C4_KeyPrefersStableId ==
    /\ \A c \in Calls :
          pc[c] # "idle" => hash[c] = generateHash(OrElse(req[c].fileId, req[c].url))
    /\ \A c, d \in Calls :
          ( /\ pc[c] # "idle" /\ pc[d] # "idle"
            /\ req[c].fileId # Null /\ req[c].fileId = req[d].fileId )
          => CachePathOf(c) = CachePathOf(d)

\* C5: convertTgsToGif never throws; when its conversion fails it returns
\* null, and when it does the frames directory is gone and the cache holds
\* no artifact for the key.
C5_TgsReturnsNullAfterCleanup ==
    [][\A c \in Calls :
          (Returns(c) /\ Kind(req'[c].url) = "tgs") =>
             /\ out'[c] # Thrown
             /\ InCatch(c) => out'[c] = Null
             /\ out'[c] = Null =>
                   /\ ~dirs'[tgsFramesDirOf(hash'[c])].exists
                   /\ cache'[cachedGifOf(hash'[c])] = NoFile]_vars

\* C6: a failed convertWebmToGif or resizeStaticImage throws, and when the
\* error reaches the caller the workspace of the call and any cache file for
\* its key have been removed.
C6_ThrowsAfterCleanup ==
    [][\A c \in Calls :
          (Returns(c) /\ pc[c] \in {"w_catch", "s_catch"}) =>
             /\ out'[c] = Thrown
             /\ \A p \in workspace[c] : ~Exists(p)'
             /\ cache'[CachePathOf(c)'] = NoFile]_vars

\* C7: at most one conversion is in flight per cache key at any time.
C7_AtMostOneConversionPerKey ==
    \A c, d \in Calls :
        (c # d /\ InFlight(c) /\ InFlight(d)) => CachePathOf(c) # CachePathOf(d)

\* C8: every call that returns a path returns the path of a complete
\* artifact that is in the cache when it returns, and the failure cleanup of
\* a call deletes neither a workspace file of another in-flight call nor a
\* finished artifact another call has returned.
C8_DuplicationDoesNotCorrupt ==
    [][\A c \in Calls :
          /\ (Returns(c) /\ IsPath(out'[c])) => cache'[out'[c]].state = "complete"
          /\ (InCatch(c) /\ pc'[c] # pc[c]) =>
                \A d \in Calls \ {c} :
                   /\ InFlight(d) =>
                         \A p \in workspace[d] :
                            /\ Exists(p) => Exists(p)'
                            /\ (p \in TempDirs) => dirs[p].files \subseteq dirs'[p].files
                   /\ ( /\ pc[d] = "done" /\ IsPath(out[d]) /\ downloads[d] = 1
                        /\ cache[out[d]].state = "complete" )
                      => cache'[out[d]] = cache[out[d]]]_vars

\* C9: from the moment a TGS conversion installs its window/document/
\* navigator until it has rendered its last frame, the installed context is
\* the one that conversion created.
StillRendering(c) ==
    \/ pc[c] = "t_mkdir" /\ 0 < anim[c].totalFrames
    \/ pc[c] = "t_write" /\ (frameNum[c] + 1) * Step(anim[c].fr) < anim[c].totalFrames

C9_RenderingContextIsolated ==
    \A c \in Calls : StillRendering(c) => gwindow = c

\* C10: no two in-flight conversions use the same temp file or frames
\* directory.
C10_WorkspaceExclusive ==
    \A c, d \in Calls :
        (c # d /\ InFlight(c) /\ InFlight(d)) => workspace[c] \cap workspace[d] = {}

\* The entries the sweep cycle under way, or the last one, has deleted.
LastSweep == sweeps[Len(sweeps)]

RECURSIVE FreedBy(_)
FreedBy(deleted) ==
    IF deleted = << >> THEN 0 ELSE Head(deleted).size + FreedBy(Tail(deleted))

\* The total size of the directory when the last sweep cycle listed it.
SizeAtScan == TotalSize(artifacts) + FreedBy(LastSweep)

\* C11: a sweep cycle that finds the cache directory over budget deletes
\* entries in ascending order of modification time, never deletes an entry
\* while it keeps an older one, goes on while the remaining total exceeds
\* the budget, stops as soon as the remaining total is at or below it (the
\* total was still over budget before the last deletion), and leaves the
\* total at or below the budget.
C11_SweepDeletesOldestFirstToBudget ==
    sweeps # << >> =>
        /\ \A i, j \in 1..Len(LastSweep) :
               i < j => LastSweep[i].mtime <= LastSweep[j].mtime
        /\ \A i \in 1..Len(LastSweep) : \A n \in Present(artifacts) :
               artifacts[n].mtime >= LastSweep[i].mtime
        /\ sweepPc = "evicting" => TotalSize(artifacts) > maxCacheSize
        /\ (sweepPc = "idle" /\ SizeAtScan > maxCacheSize) =>
               /\ TotalSize(artifacts) <= maxCacheSize
               /\ LastSweep # << >>
               /\ TotalSize(artifacts) + LastSweep[Len(LastSweep)].size
                      > maxCacheSize

\* A finished cycle that deleted two entries and kept at least one.
C11_Witness ==
    /\ sweeps # << >>
    /\ sweepPc = "idle"
    /\ Len(LastSweep) >= 2
    /\ LastSweep[1].mtime < LastSweep[2].mtime
    /\ Present(artifacts) # {}

SweepStarts == sweepPc = "idle" /\ Len(sweeps') = Len(sweeps) + 1

\* C12: a sweep cycle that starts with the total at or below the budget
\* deletes nothing and ends at once, and so does every cycle that follows
\* another cycle with no conversion in between.
C12_SweepUnderBudgetDeletesNothing ==
    [][(SweepStarts /\ (TotalSize(artifacts) <= maxCacheSize \/ sweeps # << >>))
          => (artifacts' = artifacts /\ sweepPc' = "idle"
              /\ sweeps'[Len(sweeps')] = << >>)]_vars

\* A cycle that deleted entries, followed by a cycle that deleted nothing.
C12_Witness ==
    /\ Len(sweeps) = 2
    /\ sweepPc = "idle"
    /\ sweeps[1] # << >>
    /\ sweeps[2] = << >>

\* The declared native rate, or 60 when the document declares none.
NativeRate == IF animFr = 0 THEN 60 ELSE animFr

\* r is nativeRate / 50 rounded to the nearest integer, halves upward
IsRounded(r) == 2 * targetFps * r - targetFps <= 2 * NativeRate
                /\ 2 * NativeRate < 2 * targetFps * r + targetFps

\* C13: for every declared native frame rate of the range, and for 60 when
\* none is declared, the stride is max(1, round(nativeRate / 50)); it is at
\* least 1, and it is 1 for the native rates 60 and 24.
C13_StrideIsClampedRounding ==
    step # -1 =>
        /\ step >= 1
        /\ \E r \in 0..MaxRate : IsRounded(r) /\ step = (IF r > 1 THEN r ELSE 1)
        /\ animFr \in {0, 24, 60} => step = 1

\* The stride of a 24 fps document has been computed.
C13_Witness == step = 1 /\ animFr = 24

\* C16: for every converter, two requests with different stableId values
\* resolve to two distinct cache entries, whether or not their source URL
\* is the same.
C16_DistinctIdsDistinctEntries ==
    (/\ keyPaths # << >>
     /\ keyReqs.first.fileId # Null
     /\ keyReqs.second.fileId # Null
     /\ keyReqs.first.fileId # keyReqs.second.fileId)
        => keyPaths[1] # keyPaths[2]

\* How far the call is in its straight-line code.
Rank(p) ==
    CASE p \in {"idle"} -> 0
      [] p \in {"w_download", "t_axios", "s_download"} -> 1
      [] p \in {"w_mkdir", "t_mkdir", "s_ffmpeg"} -> 2
      [] p \in {"w_ffmpeg", "t_write", "s_resizing"} -> 3
      [] p \in {"w_gifski", "t_gifski", "s_unlink"} -> 4
      [] p \in {"w_encoding", "t_encoding"} -> 5
      [] p \in {"w_readdir", "t_readdir"} -> 6
      [] p \in {"w_rmdir", "t_rmdir"} -> 7
      [] p \in {"w_catch", "t_catch", "s_catch"} -> 8
      [] p \in {"t_catch_rmdir"} -> 9
      [] OTHER -> 10

\* The external tools a conversion of the request runs: ffmpeg and gifski
\* for WebM, gifski for TGS, ffmpeg for a static image.
ToolsOf(r) == IF Kind(r.url) = "webm" THEN 2 ELSE 1

\* C17: no call retries: a call never goes back to a step it has left (the
\* TGS render loop aside), attempts at most one download, starts each of
\* its external tools at most once, and after its first failure starts no
\* download and no tool and only cleans up and ends.
C17_NoRetryWithinACall ==
    [][\A c \in Calls :
          /\ downloads'[c] <= 1
          /\ execs'[c] <= execs[c] + 1
          /\ InFlight(c) => execs'[c] <= ToolsOf(req[c])
          /\ (InFlight(c) /\ pc'[c] # pc[c]) => Rank(pc'[c]) > Rank(pc[c])
          /\ InCatch(c) => /\ downloads'[c] = downloads[c]
                           /\ execs'[c] <= execs[c]
                           /\ pc'[c] = "done" \/ InCatch(c)']_vars

\* A WebM call whose second tool failed after one download and one ffmpeg.
C17_Witness ==
    \E c \in Calls : pc[c] = "w_catch" /\ downloads[c] = 1 /\ execs[c] = 2

\* The URLs of the form /proxy/sticker?id=<hash>.
ProxyUrls == { "/proxy/sticker?id=" \o h : h \in UrlHashes }

\* C18: every response of GET /api/pack/:name of the picker of part_003,
\* the first one for a pack or one served from stickerCache, holds for each
\* sticker the fields url, emoji, isAnimated and isVideo and no other (no
\* realUrl), and its url is of the form /proxy/sticker?id=<hash>.
C18_PackResponseHoldsOnlySafeFields ==
    (build = "part_003" /\ packRes.sent) =>
        \A i \in 1..Len(packRes.body) :
            /\ DOMAIN packRes.body[i] = {"url", "emoji", "isAnimated", "isVideo"}
            /\ packRes.body[i].url \in ProxyUrls

\* The step handles a delete-pack request.
DeleteHandled == deleteReq' # deleteReq

\* C20: a delete-pack request whose token is not MM_BOT_TOKEN is answered
\* 401 and leaves the custom-packs file and stickerCache as they are; the
\* custom-packs file loses an entry only in the handling of a request that
\* carries MM_BOT_TOKEN.
C20_DeleteNeedsTheBotToken ==
    [][/\ (DeleteHandled /\ deleteReq'.token # MM_BOT_TOKEN) =>
              /\ deleteRes' = 401
              /\ customPacks' = customPacks
              /\ stickerCache' = stickerCache
       /\ customPacks' # customPacks =>
              /\ DeleteHandled
              /\ deleteReq'.token = MM_BOT_TOKEN
              /\ deleteRes' = 200]_vars

\* A request with a wrong token named a custom pack that is listed and
\* cached; the pack is still listed and cached.
C20_Witness ==
    /\ deleteRes = 401
    /\ deleteReq.token = "not-the-token"
    /\ deleteReq.packName = "Mine"
    /\ \E i \in 1..Len(customPacks) : customPacks[i].name = "Mine"
    /\ stickerCache["Mine"] # << >>

\* The send request has resolved its sticker's URL.
Dispatched == send.stickerUrl # NoRequest.url

\* C14: a send request is handed to exactly one converter, the one its
\* URL's extension names: a .webm URL only to the WebM converter, a .tgs
\* URL only to the TGS converter, every other URL only to the static one.
C14_ExactlyOneConverterByExtension ==
    Dispatched => invoked = { Kind(send.stickerUrl) }

\* C15: a send request whose TGS conversion returned null still ends with
\* the sticker posted and the answer success.
C15_TgsNullFallsBackToStatic ==
    (send.pc = "end" /\ Dispatched /\ "tgs" \in invoked /\ send.branch # "gif")
        => (sendRes = << 200 >> /\ posted # << >>)

\* C19: a message the send handler posts references an uploaded Mattermost
\* file and never the sticker's Telegram URL, and a request none of whose
\* conversions succeeded ends with nothing posted and the answer 500.
C19_NeverPostsTheSourceUrl ==
    /\ \A i \in 1..Len(posted) : posted[i] \in { ViaResponseUrl(FileText), FilePost }
    /\ (send.pc = "end" /\ Dispatched /\ send.branch = Null)
           => (posted = << >> /\ sendRes = << 500 >>)

\* ---------------------------------------------------------------------- C21
Lists(body, name) == \E i \in 1..Len(body) : body[i] = name

\* C21: whatever add-pack and delete-pack requests came before, every answer
\* of GET /api/packs lists memezey, pepetop and HotCherry; and a delete-pack
\* whose packName is not the name of a custom pack leaves the custom packs and
\* the sticker cache as they were, answering 404 when it carries the bot token
\* (401 when it does not).
C21_DefaultPacksStay ==
    [][ /\ packsRes'.sent =>
              \A i \in 1..Len(defaultPacks) : Lists(packsRes'.body, defaultPacks[i])
        /\ (deleteReq' # deleteReq /\ ~Lists(NamesOf(customPacks), deleteReq'.packName)) =>
              /\ customPacks' = customPacks
              /\ stickerCache' = stickerCache
              /\ deleteRes' = IF deleteReq'.token = MM_BOT_TOKEN THEN 404 ELSE 401
      ]_vars

\* A pack was added, a delete-pack with the token named the default pack
\* memezey, and the pack list was served afterwards.
C21_Witness ==
    /\ addRes = 200
    /\ deleteRes = 404 /\ deleteReq.packName = "memezey" /\ deleteReq.token = MM_BOT_TOKEN
    /\ packsRes.sent /\ Len(packsRes.body) > Len(defaultPacks)

\* ---------------------------------------------------------------------- C22
\* the positions in mmCalls of the requests of post p with one of the ops
CallsOf(p, ops) == { i \in 1..Len(mmCalls) : mmCalls[i].post = p /\ mmCalls[i].op \in ops }

\* handleMessage found the mention and has not replied yet / has replied
BeforeReply(p) == posts[p].pc \in { "delete", "delay", "userInfo" }
Replied(p) == posts[p].pc \in { "reply", "done" }

ReplyTo(p) == mmCalls[CHOOSE i \in CallsOf(p, { "ephemeral", "post" }) : TRUE].text

\* C23: once the bot has replied to a mention, a message whose command is `s`
\* got the picker link of a session created for the channel of the message,
\* and a message whose command is `help`, or that has no command, got the
\* help menu.
C23_CommandSOpensThePicker ==
    \A p \in PostIds :
        Replied(p) =>
            /\ (Parts(posts[p].words) # << >> /\ Parts(posts[p].words)[1] = "s") =>
                  /\ ReplyTo(p).kind = "picker"
                  /\ sessions[ReplyTo(p).session].exists
                  /\ sessionChannel[ReplyTo(p).session] = ChannelOf(p)
            /\ (Parts(posts[p].words) = << >> \/ Parts(posts[p].words)[1] = "help") =>
                  ReplyTo(p).kind = "help"

\* ---------------------------------------------------------------------- C24
\* the extension a temporary download is expected to carry
ExpectedExt(url) ==
    CASE url.ext = "png" -> "png"
      [] url.ext = "jpg" -> "jpg"
      [] url.ext = "jpeg" -> "jpg"
      [] OTHER -> "webp"

\* C24: for every still-image URL, whatever extension is sniffed from it
\* (png, jpg for jpg and jpeg, webp otherwise), the sniffed extension appears
\* in the name of the temporary download only, and the path the call returns
\* on success is gif-cache/<hash of the URL>.webp.
C24_SniffedExtensionOnlyNamesTheTemp ==
    imagePaths # << >> =>
        \A i \in 1..Len(imageReqs) :
            LET url == imageReqs[i].url
                h == generateHash(Href(url))
            IN  /\ imagePaths[i].tempImage = "temp/" \o h \o "_orig." \o ExpectedExt(url)
                /\ imagePaths[i].returned = "gif-cache/" \o h \o ".webp"

\* The file names of a png and of a jpeg URL were derived.
C24_Witness ==
    /\ imagePaths # << >>
    /\ imageReqs[1].url.ext = "png" /\ imageReqs[2].url.ext = "jpeg"
    /\ imagePaths[1].returned # imagePaths[2].returned

\* ---------------------------------------------------------------------- C25
\* the step of the pipeline a WebM or TGS call is in
Stage(p) ==
    CASE p \in { "w_download", "t_axios" } -> "download"
      [] p \in { "w_mkdir", "w_ffmpeg", "t_mkdir", "t_write" } -> "transform"
      [] p \in { "w_gifski", "w_encoding", "t_gifski", "t_encoding" } -> "encode"
      [] p \in { "w_readdir", "w_rmdir", "t_readdir", "t_rmdir" } -> "cleanup"
      [] p \in { "w_catch", "t_catch", "t_catch_rmdir" } -> "failed"
      [] OTHER -> p

\* the encoder of call c is the only writer of an artifact nobody spoilt
SoleEncoder(c) ==
    /\ cache[CachePathOf(c)] # NoFile
    /\ cache[CachePathOf(c)].writers = { c }
    /\ cache[CachePathOf(c)].state = "partial"

\* C25: on a cache miss a WebM or TGS call goes through download, transform,
\* encode in this order, each step entered only from the step before it; it
\* leaves the encode step for the cleanup and the return only when its
\* encoder's exit left a complete artifact; it returns a path only from the
\* end of that cleanup (or at once on a cache hit), and once a step has
\* failed it returns no path.
C25_DownloadTransformEncodeInOrder ==
    [][\A c \in Calls :
          (Kind(req'[c].url) \in { "webm", "tgs" } /\ pc'[c] # pc[c]) =>
             /\ Stage(pc'[c]) = "download" => pc[c] = "idle"
             /\ Stage(pc'[c]) = "transform" => Stage(pc[c]) \in { "download", "transform" }
             /\ Stage(pc'[c]) = "encode" => Stage(pc[c]) \in { "transform", "encode" }
             /\ Stage(pc'[c]) = "cleanup" => Stage(pc[c]) \in { "encode", "cleanup" }
             /\ (Stage(pc[c]) = "encode" /\ Stage(pc'[c]) = "cleanup" /\ SoleEncoder(c)) =>
                   cache'[CachePathOf(c)].state = "complete"
             /\ (Returns(c) /\ IsPath(out'[c])) =>
                   /\ pc[c] \in { "idle", "w_rmdir", "t_rmdir" }
                   /\ out'[c] = CachePathOf(c)'
             /\ Stage(pc[c]) = "failed" =>
                   /\ Stage(pc'[c]) \in { "failed", "done" }
                   /\ pc'[c] = "done" => ~IsPath(out'[c])]_vars

\* A WebM call that missed the cache has returned its path, and a TGS call
\* that missed the cache has ended with null.
C25_Witness ==
    \E c, d \in Calls :
        /\ pc[c] = "done" /\ Kind(req[c].url) = "webm"
        /\ downloads[c] = 1 /\ IsPath(out[c])
        /\ pc[d] = "done" /\ Kind(req[d].url) = "tgs"
        /\ downloads[d] = 1 /\ out[d] = Null

\* ---------------------------------------------------------------------- C26
\* ceil(x / y) for positive y
CeilDiv(x, y) == (x + y - 1) \div y

\* another TGS call with the key of call c is under way
SharesFramesDir(c) ==
    \E d \in Calls \ { c } :
        InFlight(d) /\ Kind(req[d].url) = "tgs" /\ hash[d] = hash[c]

OnlyTgsCall(c) ==
    \A d \in Calls \ { c } : ~(InFlight(d) /\ Kind(req[d].url) = "tgs")

\* C27: when a TGS call returns, with its path or with null, while no other
\* TGS call is under way, the window, document, navigator,
\* requestAnimationFrame and cancelAnimationFrame it installed in the global
\* object are no longer defined.
C27_RenderingContextRemovedOnEveryExit ==
    [][\A c \in Calls :
          (Returns(c) /\ Kind(req[c].url) = "tgs" /\ OnlyTgsCall(c)) =>
              gwindow' # c]_vars

\* ---------------------------------------------------------------------- C28
\* the handler of the proxy request has returned
ProxyEnded == proxyReq.pc = "end" /\ proxyReq.hash # Null

\* C28: a GET /proxy/sticker request is answered at most once while it is
\* handled and exactly once when its handler has returned, after at most
\* two upstream fetches and at most one refreshUrl; refreshUrl is called
\* only after the first fetch failed with 404; the answer is 500 when the
\* first fetch failed otherwise, when the refresh gave no URL and when the
\* second fetch failed, and these are the only 500s.
C28_ProxyAnswersOnceAfterAtMostTwoFetches ==
    LET fetches == proxyReq.fetches
        refreshes == proxyReq.refreshes
    IN  /\ Len(proxyRes) <= 1
        /\ Len(fetches) <= 2
        /\ Len(refreshes) <= 1
        /\ refreshes # << >> => (fetches # << >> /\ fetches[1] = "404")
        /\ Len(fetches) = 2 => refreshes = << TRUE >>
        /\ proxyReq.pc = "fetch" => proxyRes = << >>
        /\ proxyReq.pc = "refresh" => proxyRes = << >>
        /\ ProxyEnded =>
              /\ Len(proxyRes) = 1
              /\ proxyRes[1] = 500 <=>
                    \/ fetches = << "error" >>
                    \/ (fetches = << "404" >> /\ refreshes = << FALSE >>)
                    \/ (Len(fetches) = 2 /\ fetches[2] # "ok")
              /\ proxyRes[1] = 200 <=>
                    (fetches # << >> /\ fetches[Len(fetches)] = "ok")

\* A request was answered 500 after a 404, a refreshed URL and a second
\* failed fetch.
C28_Witness ==
    /\ ProxyEnded
    /\ proxyReq.fetches = << "404", "error" >> /\ proxyReq.refreshes = << TRUE >>
    /\ proxyRes = << 500 >>


\* the handler of the last POST /api/send has returned or was abandoned
SendEnded == send # NoSend /\ send.pc \in {"end", "hung"}

\* C29: every POST /api/send receives exactly one HTTP response, whatever
\* the outcomes of the Telegram lookup, the conversion, the upload and the
\* post: never more than one response, and no handler ends (by returning
\* or by an awaited call that rejects) without having sent one.
C29_EverySendIsAnsweredOnce ==
    /\ Len(sendRes) <= 1
    /\ SendEnded => Len(sendRes) = 1

\* the session of the request in hand has its response_url marked dead
DeadInHand == send.sessionId \in SessionIds /\ sessions[send.sessionId].responseUrlDead

\* a step of the handler of POST /api/send after its first await
HandlerStep == send.pc \notin {"end", "hung"}

\* C30: once a session's response_url post has failed the session stays
\* marked dead; no later /api/send for it posts anything, through the
\* response_url or directly to the channel, and none is answered with
\* success: an answer it gets is 400 (the Telegram lookup failed), 410 or
\* 500.
C30_DeadSessionNeverPostsAgain ==
    [][ /\ \A id \in SessionIds :
              sessions[id].responseUrlDead =>
                  /\ sessions'[id].responseUrlDead
                  /\ sessions'[id].responseUrl
        /\ (DeadInHand /\ HandlerStep) =>
              /\ posted' = posted
              /\ posted = << >>
              /\ sendRes' \in { sendRes } \cup
                              { Append(sendRes, status) : status \in {400, 410, 500} }
      ]_vars

\* A later request for a session marked dead has its GIF at hand and is
\* about to upload and post it.
C30_Witness ==
    /\ DeadInHand
    /\ send.pc = "upload" /\ send.branch = "gif"
    /\ sendRes = << >> /\ posted = << >>

\* C30 as it is worded: each later /api/send for a dead session is answered
\* 410 or 500.
C30_DeadSessionAnswers410Or500 ==
    (DeadInHand /\ SendEnded) =>
        (sendRes = << 410 >> \/ sendRes = << 500 >>)


\* a new POST /api/send arrives in this step
SendArrives ==
    /\ send.pc \in {"end", "hung"}
    /\ send' # send \/ sendRes' # sendRes \/ posted' # posted \/ invoked' # invoked

\* C31: a POST /api/send whose sessionId is not in the session map is
\* answered 400 at once and has no other effect: the handler ends there
\* with no Telegram lookup, no converter invoked, nothing uploaded or
\* posted, and the session map unchanged.
C31_UnknownSessionIs400AndNothingElse ==
    [][ (SendArrives /\ ~sessions[send'.sessionId].exists) =>
            /\ sendRes' = << 400 >>
            /\ send'.pc = "end"
            /\ invoked' = {}
            /\ posted' = << >>
            /\ tgSets' = tgSets
            /\ sessions' = sessions
      ]_vars

\* A send naming a session that does not exist was answered 400.
C31_Witness ==
    /\ send.sessionId = "s1" /\ send.pc = "end"
    /\ ~sessions["s1"].exists
    /\ sendRes = << 400 >> /\ posted = << >> /\ invoked = {}


\* C32: sessions expire after 10 minutes: whatever session-creating
\* requests and sends came before, POST /api/send never accepts a session
\* that was created more than 10 minutes earlier.
C32_SendNeverAcceptsAnExpiredSession ==
    lastSend.status = 200 => lastSend.age <= SessionTtl


\* the list GET /api/pack/:name last returned for the pack of the send
ListedForSend == stickerCache[send.packName]

\* C33: the sticker POST /api/send delivers for (pack, index i) is the same
\* file (same fileId) as element i of the list GET /api/pack/:name returned
\* for that pack, also when some file URLs could not be resolved while the
\* list was built.
C33_SendDeliversTheListedSticker ==
    ( /\ build = "part_003"
      /\ send.fileId # Null
      /\ send.stickerIndex + 1 <= Len(ListedForSend) )
    => ListedForSend[send.stickerIndex + 1].fileId = send.fileId


\* no two entries with the same name up to case, none with the same
\* telegramName
NoDuplicatePacks(packs) ==
    \A i, j \in 1..Len(packs) :
        i # j => /\ ToLowerCase(packs[i].name) # ToLowerCase(packs[j].name)
                 /\ packs[i].telegramName # packs[j].telegramName

\* C34: after any sequence of add-pack and delete-pack requests the
\* custom-packs list has no two entries with the same name compared
\* case-insensitively and no two with the same telegramName; the list grows
\* only by an add answered with success, and an add answered with an error
\* leaves the list unchanged.
C34_CustomPacksStayFreeOfDuplicates ==
    [][ /\ NoDuplicatePacks(customPacks')
        /\ Len(customPacks') > Len(customPacks) =>
              (addRes' = 200 /\ Len(customPacks') = Len(customPacks) + 1)
        /\ (addRes' # addRes /\ addRes' \in {400, 500}) => customPacks' = customPacks
      ]_vars

\* An add was rejected as a duplicate while the list holds "Mine".
C34_Witness ==
    /\ addRes = 500
    /\ \E i \in 1..Len(customPacks) : customPacks[i].name = "Mine"


\* C35: a failed or empty pack lookup is never memoized.  stickerCache gets
\* an entry for a pack only when the lookup for that pack settles with at
\* least one sticker, which is then the list answered; TelegramAPI's
\* stickerCache gets only sets Telegram knows; a request is answered
\* without a lookup only from a non-empty entry, so after a lookup that
\* gave nothing the next request looks the pack up again; and a successful
\* delete-pack removes the pack's stickerCache entry.
C35_FailedLookupsAreNotMemoized ==
    [][ /\ \A n \in PackNames :
              (stickerCache'[n] # stickerCache[n] /\ stickerCache'[n] # << >>) =>
                  /\ packReq.pc = "lookup" /\ packReq.packName = n
                  /\ Len(stickerCache'[n]) >= 1
                  /\ Len(packRes'.body) = Len(stickerCache'[n])
        /\ (packReq.pc = "lookup" /\ packReq'.pc = "end") =>
              /\ packRes'.sent
              /\ packRes'.body = << >> =>
                    /\ stickerCache' = stickerCache
                    /\ stickerCache'[packReq.packName] = << >>
        /\ tgSets' \subseteq DOMAIN StickerSets
        /\ tgSets' # tgSets =>
              (packReq.pc = "lookup" /\ tgSets' = tgSets \cup {packReq.telegramPackName})
        /\ (packReq.pc = "end" /\ packReq'.pc = "lookup") =>
              stickerCache[packReq'.packName] = << >>
        /\ (packReq.pc = "end" /\ packReq'.pc = "end" /\ packRes' # packRes) =>
              \E n \in PackNames :
                  stickerCache[n] # << >> /\ packRes'.body = stickerCache[n]
        /\ (deleteReq' # deleteReq /\ deleteRes' = 200) =>
              stickerCache'[deleteReq'.packName] = << >>
      ]_vars

\* A lookup gave nothing: the request was answered with an empty list and
\* neither cache holds anything.
C35_Witness ==
    /\ packReq.pc = "end"
    /\ packRes.sent /\ packRes.body = << >>
    /\ \A n \in PackNames : stickerCache[n] = << >>
    /\ tgSets = {}


\* the step does what an ignored event may do to post p: nothing is asked of
\* Mattermost, no session is created, and the event is dropped
Dropped(p) ==
    /\ posts'[p].pc = "ignored"
    /\ mmCalls' = mmCalls
    /\ sessions' = sessions /\ sessionChannel' = sessionChannel

C37_OneReconnectPerClose ==
    /\ [](/\ Len(sockets) + Len(timers) <= 1
          /\ attempts > 0 => attempts = closes + 1 - Len(timers)
          /\ \A j \in 1..Len(timers) : timers[j] \in 0..ReconnectDelay)
    /\ [][ /\ closes' = closes + 1 =>
                 (Len(timers') = Len(timers) + 1 /\ timers'[Len(timers')] = ReconnectDelay)
           /\ Len(timers') > Len(timers) => closes' = closes + 1
           /\ (attempts > 0 /\ attempts' = attempts + 1) =>
                 (timers = << 0 >> /\ timers' = << >> /\ Len(sockets') = 1)
         ]_vars
    /\ (timers # << >>) ~> (sockets # << >>)

\* Three closes were followed by three reconnects, and the fourth
\* connection is open.
C37_Witness ==
    /\ closes = 3 /\ attempts = 4
    /\ sockets = << [state |-> "open", errored |-> FALSE] >>
    /\ timers = << >>

====
